---- MODULE Spec2Model ----
(***************************************************************************)
(* A model of the compiler front end: the recursive-descent Parser of      *)
(* src/src/sintax_analyzer.py as a small-step machine with an explicit     *)
(* call stack, and the SymbolTable / IntermediateCodeGenerator /           *)
(* SemanticAnalyzer of src/src/semantic_analyzer.py as a session of calls. *)
(* read_text_file of src/src/main.py and of src/src/lexical_analyzer.py    *)
(* is a function of the lines of the file.                                 *)
(***************************************************************************)
EXTENDS Integers, Sequences, FiniteSets, TLC

VARIABLES
    tokens,         \* Parser.tokens
    pos,            \* Parser.pos (0-based, as in the source)
    current_token,  \* Parser.current_token
    stack,          \* the Python call stack of the parser, innermost frame last
    ret,            \* the value returned by the call that returned last
    status,         \* "running" | "returned" | "raised"
    err,            \* the exception raised, when status = "raised"
    scopes,         \* the SymbolTable objects alive, each with its parent link
    current_scope,  \* SemanticAnalyzer.current_scope, a place in scopes
    code,           \* IntermediateCodeGenerator.code
    temp_count,     \* IntermediateCodeGenerator.temp_count
    label_count,    \* IntermediateCodeGenerator.label_count
    functions,      \* SemanticAnalyzer.functions
    last,           \* the last call made on the analyzer or a scope, and its outcome
    calls,          \* the number of expression-level generate_code calls made
    file,           \* the lines of the file handed to read_text_file
    textLines,      \* the list read_text_file returned
    reader          \* "idle", or the module whose read_text_file has returned

pvars == <<tokens, pos, current_token, stack, ret, status, err>>
svars == <<scopes, current_scope, code, temp_count, label_count, functions, last, calls>>
rvars == <<file, textLines, reader>>
vars == <<pvars, svars, rvars>>

(***************************************************************************)
(* Bounds of the model.                                                    *)
(***************************************************************************)
MaxTokens == 3      \* token lists over the whole TokenType enumeration
MaxOps == 2         \* binary operators in a generated expression
MaxStmts == 2       \* statements in a generated program

\* the value None, where a node or a type is expected
None == [k |-> "None"]

(***************************************************************************)
(* Tokens.                                                                 *)
(***************************************************************************)
TokenType ==
    {"INTEGER", "FLOAT", "IDENTIFIER", "PLUS", "MINUS", "MUL", "DIV", "ASSIGN",
     "LPAREN", "RPAREN", "LBRACE", "RBRACE", "SEMICOLON", "LET", "EOF"}

NoLine == 0         \* line=None / column=None of Token.__init__
NoValue == "None"   \* value=None of Token.__init__

Token(type, value, line, column) ==
    [type |-> type, value |-> value, line |-> line, column |-> column]

\* Token(TokenType.EOF), the token eat() makes up past the end of the list
EOFToken == Token("EOF", NoValue, NoLine, NoLine)

(***************************************************************************)
(* AST nodes.                                                              *)
(***************************************************************************)
Program(statements) == [k |-> "Program", statements |-> statements]
VarDecl(identifier, initializer) ==
    [k |-> "VarDecl", identifier |-> identifier, initializer |-> initializer]
Assignment(identifier, value) ==
    [k |-> "Assignment", identifier |-> identifier, value |-> value]
BinOp(left, op, right) == [k |-> "BinOp", left |-> left, op |-> op, right |-> right]
Num(token) == [k |-> "Num", token |-> token, value |-> token.value]
Var(token) == [k |-> "Var", token |-> token, value |-> token.value]

(***************************************************************************)
(* The call stack.  A frame holds the function, the place in its body and  *)
(* its locals.                                                             *)
(***************************************************************************)
Frame(fn) ==
    [fn |-> fn, pc |-> 0, node |-> None, token |-> EOFToken,
     identifier |-> NoValue, statements |-> <<>>, token_type |-> "EOF"]

Top == stack[Len(stack)]
Callers == SubSeq(stack, 1, Len(stack) - 1)
Running(fn) == status = "running" /\ Len(stack) > 0 /\ Top.fn = fn

NoErr == [kind |-> "None", line |-> NoLine, column |-> NoLine,
          expected |-> NoValue, found |-> NoValue]

\* the caller moves to pc and keeps the locals upd; the callee starts
Call(upd, pc, callee) ==
    /\ stack' = Append(Callers, [upd EXCEPT !.pc = pc]) \o <<callee>>
    /\ UNCHANGED <<tokens, pos, current_token, ret, status, err>>

CallEat(upd, pc, token_type) ==
    Call(upd, pc, [Frame("eat") EXCEPT !.token_type = token_type])

\* the frame on top returns value to its caller; parse returns to the user
Return(value) ==
    /\ stack' = Callers
    /\ ret' = value
    /\ status' = IF Len(stack) = 1 THEN "returned" ELSE "running"
    /\ UNCHANGED <<tokens, pos, current_token, err>>

\* a jump inside the frame on top
Goto(upd, pc) ==
    /\ stack' = Append(Callers, [upd EXCEPT !.pc = pc])
    /\ UNCHANGED <<tokens, pos, current_token, ret, status, err>>

\* Parser.error: raise Exception(msg), which no frame catches
Error(expected) ==
    /\ status' = "raised"
    /\ err' = [kind |-> "SyntaxError", line |-> current_token.line,
               column |-> current_token.column, expected |-> expected,
               found |-> current_token.type]
    /\ UNCHANGED <<tokens, pos, current_token, stack, ret>>

\* list indexing out of range raises IndexError
IndexError ==
    /\ status' = "raised"
    /\ err' = [NoErr EXCEPT !.kind = "IndexError"]
    /\ UNCHANGED <<tokens, pos, current_token, stack, ret>>

\* self.tokens[i], i counted from 0
InRange(i) == 0 <= i /\ i < Len(tokens)
TokenAt(i) == tokens[i + 1]

(***************************************************************************)
(* Parser.eat                                                              *)
(***************************************************************************)
\* a fault: eat advances whatever the current token is
EatMatches_Any(token_type) == TRUE
EatMatches(token_type) == current_token.type = token_type
\* a fault: the cursor stays where it is
EatAdvance_Stay(p) == p
\* self.pos += 1
EatAdvance(p) == p + 1
EatHasNext(p) == p < Len(tokens)

Eat ==
    /\ Running("eat")
    /\ UNCHANGED <<svars, rvars>>
    /\ IF EatMatches(Top.token_type)
       THEN /\ pos' = EatAdvance(pos)
            /\ IF EatHasNext(pos') /\ ~InRange(pos')
               THEN \* self.tokens[self.pos] raises IndexError
                    /\ status' = "raised"
                    /\ err' = [NoErr EXCEPT !.kind = "IndexError"]
                    /\ UNCHANGED <<tokens, current_token, stack, ret>>
               ELSE /\ current_token' = IF EatHasNext(pos') THEN TokenAt(pos') ELSE EOFToken
                    /\ stack' = Callers
                    /\ ret' = None
                    /\ UNCHANGED <<tokens, status, err>>
       ELSE Error(Top.token_type)

(***************************************************************************)
(* Parser.factor                                                           *)
(***************************************************************************)
Factor ==
    /\ Running("factor")
    /\ UNCHANGED <<svars, rvars>>
    /\ LET f == Top IN
       CASE f.pc = 0 ->
              LET token == current_token
                  g == [f EXCEPT !.token = token] IN
              IF token.type = "INTEGER" \/ token.type = "FLOAT"
              THEN CallEat(g, 1, token.type)
              ELSE IF token.type = "IDENTIFIER"
              THEN CallEat(g, 2, "IDENTIFIER")
              ELSE IF token.type = "LPAREN"
              THEN CallEat(g, 3, "LPAREN")
              ELSE Error("number, identifier, or '('")
         [] f.pc = 1 -> Return(Num(f.token))
         [] f.pc = 2 -> Return(Var(f.token))
         [] f.pc = 3 -> Call(f, 4, Frame("expr"))
         [] f.pc = 4 -> CallEat([f EXCEPT !.node = ret], 5, "RPAREN")
         [] f.pc = 5 -> Return(f.node)

(***************************************************************************)
(* Parser.term                                                             *)
(***************************************************************************)
\* a fault: the loop of term also takes the additive operators
TermOps_WithAdditive == {"MUL", "DIV", "PLUS", "MINUS"}
TermOps == {"MUL", "DIV"}

Term ==
    /\ Running("term")
    /\ UNCHANGED <<svars, rvars>>
    /\ LET f == Top IN
       CASE f.pc = 0 -> Call(f, 1, Frame("factor"))
         [] f.pc = 1 -> Goto([f EXCEPT !.node = ret], 2)
         [] f.pc = 2 ->
              IF current_token.type \in TermOps
              THEN CallEat([f EXCEPT !.token = current_token], 3, current_token.type)
              ELSE Return(f.node)
         [] f.pc = 3 -> Call(f, 4, Frame("factor"))
         [] f.pc = 4 -> Goto([f EXCEPT !.node = BinOp(f.node, f.token, ret)], 2)

(***************************************************************************)
(* Parser.expr                                                             *)
(***************************************************************************)
ExprOps == {"PLUS", "MINUS"}

Expr ==
    /\ Running("expr")
    /\ UNCHANGED <<svars, rvars>>
    /\ LET f == Top IN
       CASE f.pc = 0 -> Call(f, 1, Frame("term"))
         [] f.pc = 1 -> Goto([f EXCEPT !.node = ret], 2)
         [] f.pc = 2 ->
              IF current_token.type \in ExprOps
              THEN CallEat([f EXCEPT !.token = current_token], 3, current_token.type)
              ELSE Return(f.node)
         [] f.pc = 3 -> Call(f, 4, Frame("term"))
         [] f.pc = 4 -> Goto([f EXCEPT !.node = BinOp(f.node, f.token, ret)], 2)

(***************************************************************************)
(* Parser.assignment and Parser.var_decl                                   *)
(***************************************************************************)
AssignmentStmt ==
    /\ Running("assignment")
    /\ UNCHANGED <<svars, rvars>>
    /\ LET f == Top IN
       CASE f.pc = 0 ->
              CallEat([f EXCEPT !.identifier = current_token.value], 1, "IDENTIFIER")
         [] f.pc = 1 -> CallEat(f, 2, "ASSIGN")
         [] f.pc = 2 -> Call(f, 3, Frame("expr"))
         [] f.pc = 3 -> Return(Assignment(f.identifier, ret))

VarDeclStmt ==
    /\ Running("var_decl")
    /\ UNCHANGED <<svars, rvars>>
    /\ LET f == Top IN
       CASE f.pc = 0 -> CallEat(f, 1, "LET")
         [] f.pc = 1 ->
              CallEat([f EXCEPT !.identifier = current_token.value], 2, "IDENTIFIER")
         [] f.pc = 2 -> CallEat(f, 3, "ASSIGN")
         [] f.pc = 3 -> Call(f, 4, Frame("expr"))
         [] f.pc = 4 -> Return(VarDecl(f.identifier, ret))

(***************************************************************************)
(* Parser.statement                                                        *)
(***************************************************************************)
\* a fault: the lookahead is read without the length test
LookaheadInside_Unchecked == TRUE
\* len(self.tokens) > self.pos + 1
LookaheadInside == Len(tokens) > pos + 1
\* a fault: the test for "=" looks at the current token, not the one after it
LookaheadIsAssign_Current == TokenAt(pos).type = "ASSIGN"
\* self.tokens[self.pos + 1].type == TokenType.ASSIGN
LookaheadIsAssign == TokenAt(pos + 1).type = "ASSIGN"

Statement ==
    /\ Running("statement")
    /\ UNCHANGED <<svars, rvars>>
    /\ LET f == Top IN
       CASE f.pc = 0 ->
              IF current_token.type = "LET"
              THEN Call(f, 1, Frame("var_decl"))
              ELSE IF current_token.type = "IDENTIFIER" /\ LookaheadInside
              THEN IF ~InRange(pos + 1)
                   THEN IndexError
                   ELSE IF LookaheadIsAssign
                   THEN Call(f, 1, Frame("assignment"))
                   ELSE Call(f, 1, Frame("expr"))
              ELSE Call(f, 1, Frame("expr"))
         [] f.pc = 1 -> Return(ret)

(***************************************************************************)
(* Parser.parse                                                            *)
(***************************************************************************)
\* a fault: the new statement goes in front of the list
AppendStatement_Prepend(statements, s) == <<s>> \o statements
AppendStatement(statements, s) == Append(statements, s)

Parse ==
    /\ Running("parse")
    /\ UNCHANGED <<svars, rvars>>
    /\ LET f == Top IN
       CASE f.pc = 0 ->
              IF current_token.type # "EOF"
              THEN Call(f, 1, Frame("statement"))
              ELSE Return(Program(f.statements))
         [] f.pc = 1 ->
              LET g == [f EXCEPT !.statements = AppendStatement(f.statements, ret)] IN
              IF current_token.type = "SEMICOLON"
              THEN CallEat(g, 0, "SEMICOLON")
              ELSE Goto(g, 0)

(***************************************************************************)
(* Inputs: every token list of up to MaxTokens tokens over the whole       *)
(* enumeration, with or without an end-of-input token.  The token at       *)
(* place i is on line 1, column i; a literal or identifier carries a value.*)
(***************************************************************************)
ValueOf(type, i) ==
    CASE type = "INTEGER" -> ToString(i)
      [] type = "FLOAT" -> ToString(i) \o ".5"
      [] type = "IDENTIFIER" -> "v" \o ToString(i)
      [] OTHER -> NoValue

Lex(types) == [i \in 1..Len(types) |-> Token(types[i], ValueOf(types[i], i), 1, i)]

TypeLists(n) == UNION {[1..m -> TokenType] : m \in 1..n}

AllInputs == {Lex(ts) : ts \in TypeLists(MaxTokens)}

(***************************************************************************)
(* Inputs: the token lists of programs of the grammar.  ExprTypes(n) are   *)
(* the expressions with n binary operators, a compound operand written     *)
(* with or without parentheses; a program is one statement over such an    *)
(* expression, or up to MaxStmts short statements, each with or without    *)
(* its semicolon, and ends with the end-of-input token.                    *)
(***************************************************************************)
GenOps == {"PLUS", "MINUS", "MUL", "DIV"}

RECURSIVE ExprTypes(_)
Operand(n) ==
    IF n = 0 THEN {<<"INTEGER">>}
    ELSE ExprTypes(n) \cup {<<"LPAREN">> \o e \o <<"RPAREN">> : e \in ExprTypes(n)}
ExprTypes(n) ==
    IF n = 0 THEN {<<"INTEGER">>}
    ELSE UNION {{l \o <<op>> \o r : l \in Operand(i), r \in Operand(n - 1 - i), op \in GenOps}
                : i \in 0..(n - 1)}

StatementTypes(n) ==
    LET es == UNION {ExprTypes(m) : m \in 0..n} IN
    es \cup {<<"LET", "IDENTIFIER", "ASSIGN">> \o e : e \in es}
       \cup {<<"IDENTIFIER", "ASSIGN">> \o e : e \in es}

ShortStatements ==
    {<<"INTEGER">>, <<"IDENTIFIER">>, <<"LPAREN", "INTEGER", "RPAREN">>,
     <<"INTEGER", "MINUS", "IDENTIFIER">>,
     <<"LET", "IDENTIFIER", "ASSIGN", "INTEGER">>,
     <<"IDENTIFIER", "ASSIGN", "IDENTIFIER">>}

RECURSIVE ProgramTypes(_)
ProgramTypes(n) ==
    IF n = 0 THEN {<<>>}
    ELSE LET ps == ProgramTypes(n - 1) IN
         ps \cup {p \o s \o sep : p \in ps, s \in ShortStatements,
                                  sep \in {<<>>, <<"SEMICOLON">>}}

ProgramInputs ==
    {Lex(ts \o <<"EOF">>) : ts \in StatementTypes(MaxOps) \cup ProgramTypes(MaxStmts)}

(***************************************************************************)
(* Types and symbol tables (src/src/semantic_analyzer.py).                 *)
(***************************************************************************)
SymbolTypeValues == {"int", "float", "char", "bool", "array", "function"}
SymbolType(value) == [enum |-> value]
INT == SymbolType("int")
FLOAT == SymbolType("float")
CHAR == SymbolType("char")
BOOL == SymbolType("bool")
ArrayType(base_type, size) == [base_type |-> base_type, size |-> size]
\* isinstance(t, ArrayType)
IsArrayType(t) == DOMAIN t = {"base_type", "size"}

NoExc == [exc |-> "None", msg |-> ""]
ValueError(msg) == [exc |-> "ValueError", msg |-> msg]
TypeError(msg) == [exc |-> "TypeError", msg |-> msg]

NoRef == "None"     \* the value None where a reference is expected

\* SymbolTable.__init__; parent = 0 stands for parent=None
SymbolTable(parent) == [table |-> <<>>, parent |-> parent]
Entry(symbol_type, is_const) == [type |-> symbol_type, is_const |-> is_const]

\* SymbolTable.add_symbol on the table of one scope
\* a fault: no test for an entry of the same name
Declared_Never(table, name) == FALSE
Declared(table, name) == name \in DOMAIN table
add_symbol(table, name, symbol_type, is_const) ==
    IF Declared(table, name)
    THEN [exc |-> ValueError("Variable '" \o name \o "' already declared"),
          table |-> table]
    ELSE [exc |-> NoExc, table |-> (name :> Entry(symbol_type, is_const)) @@ table]

\* SymbolTable.check_symbol on scope i of scs
\* a fault: the lookup stops at the scope it is called on
HasParent_Never(scope) == FALSE
HasParent(scope) == scope.parent # 0
RECURSIVE check_symbol(_, _, _)
check_symbol(scs, i, name) ==
    IF name \in DOMAIN scs[i].table
    THEN [exc |-> NoExc, entry |-> scs[i].table[name]]
    ELSE IF HasParent(scs[i])
    THEN check_symbol(scs, scs[i].parent, name)
    ELSE [exc |-> ValueError("Variable '" \o name \o "' not declared"),
          entry |-> Entry(None, FALSE)]

(***************************************************************************)
(* IntermediateCodeGenerator, on the analyzer state                        *)
(* s = [scopes, current_scope, code, temp_count, label_count, functions].  *)
(***************************************************************************)
Quad(op, arg1, arg2, result) ==
    [op |-> op, arg1 |-> arg1, arg2 |-> arg2, result |-> result]

TempName(n) == "t" \o ToString(n)
\* a fault: the counter is not advanced
new_temp_Reuse(s) == [name |-> TempName(s.temp_count), s |-> s]
new_temp(s) == [name |-> TempName(s.temp_count),
                s |-> [s EXCEPT !.temp_count = @ + 1]]

LabelName(n) == "L" \o ToString(n)
\* a fault: the counter is not advanced
new_label_Reuse(s) == [name |-> LabelName(s.label_count), s |-> s]
new_label(s) == [name |-> LabelName(s.label_count),
                 s |-> [s EXCEPT !.label_count = @ + 1]]

\* a fault: the log is replaced by the new instruction
emit_Overwrite(s, op, arg1, arg2, result) ==
    [s EXCEPT !.code = <<Quad(op, arg1, arg2, result)>>]
emit(s, op, arg1, arg2, result) ==
    [s EXCEPT !.code = Append(@, Quad(op, arg1, arg2, result))]

(***************************************************************************)
(* SemanticAnalyzer: the analyze_* checks.                                 *)
(***************************************************************************)
\* what a call yields: the state it leaves, the exception it raised (or
\* NoExc) and the pair it returned
Ok(s, res, typ) == [s |-> s, exc |-> NoExc, res |-> res, typ |-> typ]
Raise(s, exc) == [s |-> s, exc |-> exc, res |-> NoRef, typ |-> None]

\* except ValueError as e: raise ValueError(prefix + str(e))
Rewrap(prefix, exc) ==
    IF exc.exc = "ValueError" THEN ValueError(prefix \o exc.msg) ELSE exc

\* SymbolType(type_spec), which raises ValueError for a string outside the enum
ValidTypeSpec(type_spec) == type_spec \in SymbolTypeValues
\* array_size <= 0
\* a fault: a size of zero passes
BadSize_NegativeOnly(array_size) == array_size < 0
BadSize(array_size) == array_size <= 0

\* node.get('array_size') is None  /  node.get('is_const', False)
NoArraySize(node) == "array_size" \notin DOMAIN node
IsConstOf(node) == IF "is_const" \in DOMAIN node THEN node.is_const ELSE FALSE

analyze_declaration(s, node) ==
    LET type_spec == node.data_type
        exc1 == IF ~NoArraySize(node) /\ BadSize(node.array_size)
                THEN ValueError("Array size must be positive")
                ELSE IF ~ValidTypeSpec(type_spec)
                THEN ValueError("'" \o type_spec \o "' is not a valid SymbolType")
                ELSE NoExc
        symbol_type == IF NoArraySize(node) THEN SymbolType(type_spec)
                       ELSE ArrayType(SymbolType(type_spec), node.array_size)
        added == add_symbol(s.scopes[s.current_scope].table, node.var_name,
                            symbol_type, IsConstOf(node))
    IN IF exc1 # NoExc THEN Raise(s, Rewrap("Declaration error: ", exc1))
       ELSE IF added.exc # NoExc THEN Raise(s, Rewrap("Declaration error: ", added.exc))
       ELSE Ok([s EXCEPT !.scopes[s.current_scope].table = added.table], NoRef, None)

ArithmeticOps == {"+", "-", "*", "/"}
RelationalOps == {"<", ">", "<=", ">=", "==", "!="}
LogicalOps == {"&&", "||"}

Numeric(t) == t \in {INT, FLOAT}
\* {left_type, right_type} builds a set, and an ArrayType cannot be hashed
Unhashable(t) == IsArrayType(t)

\* a fault: FLOAT only when both operands are FLOAT
ArithmeticResult_BothFloat(left_type, right_type) ==
    IF left_type = FLOAT /\ right_type = FLOAT THEN FLOAT ELSE INT
ArithmeticResult(left_type, right_type) ==
    IF left_type = FLOAT \/ right_type = FLOAT THEN FLOAT ELSE INT

\* a fault: INT with FLOAT is allowed in one order only
MixedNumeric_OneOrder(left_type, right_type) == left_type = INT /\ right_type = FLOAT
\* {left_type, right_type} == {SymbolType.INT, SymbolType.FLOAT}
MixedNumeric(left_type, right_type) == {left_type, right_type} = {INT, FLOAT}

\* a fault: "and" for "or", so one BOOL operand is enough
NotBothBool_And(left_type, right_type) == left_type # BOOL /\ right_type # BOOL
\* left_type != SymbolType.BOOL or right_type != SymbolType.BOOL
NotBothBool(left_type, right_type) == left_type # BOOL \/ right_type # BOOL

\* [exc, typ]: the exception raised or the type returned
analyze_binary_op(left_type, right_type, op) ==
    IF op \in ArithmeticOps
    THEN IF ~Numeric(left_type) \/ ~Numeric(right_type)
         THEN [exc |-> ValueError("Invalid operands for '" \o op \o "' operation"),
               typ |-> None]
         ELSE [exc |-> NoExc, typ |-> ArithmeticResult(left_type, right_type)]
    ELSE IF op \in RelationalOps
    THEN IF left_type # right_type
         THEN IF Unhashable(left_type) \/ Unhashable(right_type)
              THEN [exc |-> TypeError("unhashable type: 'ArrayType'"), typ |-> None]
              ELSE IF MixedNumeric(left_type, right_type)
              THEN [exc |-> NoExc, typ |-> BOOL]
              ELSE [exc |-> ValueError("Type mismatch in relational operation '"
                                       \o op \o "'"),
                    typ |-> None]
         ELSE [exc |-> NoExc, typ |-> BOOL]
    ELSE IF op \in LogicalOps
    THEN IF NotBothBool(left_type, right_type)
         THEN [exc |-> ValueError("Invalid operands for logical '" \o op
                                  \o "' operation"),
               typ |-> None]
         ELSE [exc |-> NoExc, typ |-> BOOL]
    ELSE [exc |-> ValueError("Unknown operator '" \o op \o "'"), typ |-> None]

\* analyze_assignment: var_info['is_const']
\* a fault: no binding counts as const
IsConst_Never(entry) == FALSE
IsConst(entry) == entry.is_const

\* analyze_assignment: the implicit conversion allowed on a type mismatch
\* a fault: INT and FLOAT convert in both directions
Promotes_EitherWay(var_type, expr_type) == {var_type, expr_type} = {INT, FLOAT}
Promotes(var_type, expr_type) == var_type = FLOAT /\ expr_type = INT

\* [exc, typ]: the exception raised or the type returned
analyze_assignment(s, var_name, expr_type) ==
    LET c == check_symbol(s.scopes, s.current_scope, var_name)
        var_info == c.entry
        exc == IF c.exc # NoExc THEN c.exc
               ELSE IF IsConst(var_info)
               THEN ValueError("Cannot assign to constant '" \o var_name \o "'")
               ELSE IF IsArrayType(var_info.type)
               THEN ValueError("Cannot directly assign to array '" \o var_name \o "'")
               ELSE IF var_info.type # expr_type /\ ~Promotes(var_info.type, expr_type)
               THEN ValueError("Type mismatch in assignment to '" \o var_name \o "'")
               ELSE NoExc
    IN IF exc # NoExc THEN [exc |-> Rewrap("Assignment error: ", exc), typ |-> None]
       ELSE [exc |-> NoExc, typ |-> var_info.type]

\* [exc, typ]: the exception raised or the type returned
analyze_unary_op(operand_type, op) ==
    IF op = "!"
    THEN IF operand_type # BOOL
         THEN [exc |-> ValueError("Invalid operand for logical NOT '!' operation"),
               typ |-> None]
         ELSE [exc |-> NoExc, typ |-> BOOL]
    ELSE IF op = "-"
    THEN IF ~Numeric(operand_type)
         THEN [exc |-> ValueError("Invalid operand for unary '-' operation"),
               typ |-> None]
         ELSE [exc |-> NoExc, typ |-> operand_type]
    ELSE [exc |-> ValueError("Unknown unary operator '" \o op \o "'"), typ |-> None]

\* analyze_array_access: index_type != SymbolType.INT
\* a fault: a FLOAT index passes
IndexNotInt_Numeric(index_type) == ~Numeric(index_type)
IndexNotInt(index_type) == index_type # INT

\* [exc, typ]: the exception raised or the base type returned
analyze_array_access(s, array_name, index_type) ==
    LET c == check_symbol(s.scopes, s.current_scope, array_name)
        array_info == c.entry
        exc == IF c.exc # NoExc THEN c.exc
               ELSE IF ~IsArrayType(array_info.type)
               THEN ValueError("'" \o array_name \o "' is not an array")
               ELSE IF IndexNotInt(index_type)
               THEN ValueError("Array index must be integer")
               ELSE NoExc
    IN IF exc # NoExc THEN [exc |-> Rewrap("Array access error: ", exc), typ |-> None]
       ELSE [exc |-> NoExc, typ |-> array_info.type.base_type]

\* analyze_function_call: len(arg_types) != len(func_info['params'])
\* a fault: only too few arguments are refused
ArityMismatch_Fewer(arg_types, params) == Len(arg_types) < Len(params)
ArityMismatch(arg_types, params) == Len(arg_types) # Len(params)

\* the positions zip(arg_types, params) pairs, whose types differ
Mismatches(arg_types, params) ==
    {i \in (DOMAIN arg_types) \cap (DOMAIN params) : arg_types[i] # params[i]}
First(S) == CHOOSE i \in S : \A j \in S : i <= j

\* [exc, typ]: the exception raised or the return type returned
analyze_function_call(s, func_name, arg_types) ==
    IF func_name \notin DOMAIN s.functions
    THEN [exc |-> ValueError("Function '" \o func_name \o "' not declared"),
          typ |-> None]
    ELSE LET func_info == s.functions[func_name] IN
         IF ArityMismatch(arg_types, func_info.params)
         THEN [exc |-> ValueError("Function '" \o func_name \o "' expects "
                                  \o ToString(Len(func_info.params)) \o " arguments"),
               typ |-> None]
         ELSE IF Mismatches(arg_types, func_info.params) # {}
         THEN [exc |-> ValueError("Argument "
                                  \o ToString(First(Mismatches(arg_types, func_info.params)))
                                  \o " type mismatch in call to '" \o func_name \o "'"),
               typ |-> None]
         ELSE [exc |-> NoExc, typ |-> func_info.return_type]

\* the type of a literal from the shape of its Python value
\* a fault: no literal is a CHAR
LiteralType_NoChar(value) ==
    IF value.py = "bool" THEN BOOL
    ELSE IF value.py = "int" THEN INT
    ELSE IF value.py = "float" THEN FLOAT
    ELSE None
LiteralType(value) ==
    IF value.py = "bool" THEN BOOL
    ELSE IF value.py = "int" THEN INT
    ELSE IF value.py = "float" THEN FLOAT
    ELSE IF value.py = "str" /\ value.len = 1 THEN CHAR
    ELSE None

(***************************************************************************)
(* SemanticAnalyzer.generate_code                                          *)
(***************************************************************************)
\* 'index' in node  /  'else_block' in node
HasIndex(node) == "index" \in DOMAIN node
\* a fault: the else-block is never looked for
HasElse_Never(node) == FALSE
HasElse(node) == "else_block" \in DOMAIN node

\* array element assignment: array_type != expr_type
\* a fault: an INT value passes into a FLOAT element, as in a scalar assignment
ElementMismatch_Promoting(array_type, expr_type) ==
    array_type # expr_type /\ ~(array_type = FLOAT /\ expr_type = INT)
ElementMismatch(array_type, expr_type) == array_type # expr_type

\* scalar assignment: result_type == SymbolType.FLOAT and expr_type == SymbolType.INT
NeedsConversion(result_type, expr_type) == result_type = FLOAT /\ expr_type = INT

\* while: cond_type != SymbolType.BOOL
\* a fault: the condition of a loop is not checked
LoopConditionBad_Never(cond_type) == FALSE
LoopConditionBad(cond_type) == cond_type # BOOL

\* function_call: the branch that issues a temporary and returns a pair
ReturnsValue(return_type) == return_type = INT

\* what the loop over node['args'] yields
Args(s, exc, results, types) ==
    [s |-> s, exc |-> exc, results |-> results, types |-> types]

RECURSIVE generate_code(_, _)
RECURSIVE generate_args(_, _)
\* for arg in node['args']: res, typ = self.generate_code(arg); append both
generate_args(s, args) ==
    IF args = <<>> THEN Args(s, NoExc, <<>>, <<>>)
    ELSE LET h == generate_code(s, Head(args)) IN
         IF h.exc # NoExc THEN Args(h.s, h.exc, <<>>, <<>>)
         ELSE LET t == generate_args(h.s, Tail(args)) IN
              Args(t.s, t.exc, <<h.res>> \o t.results, <<h.typ>> \o t.types)

generate_code(s, node) ==
    IF node.type = "declaration"
    THEN LET d == analyze_declaration(s, node) IN
         IF d.exc # NoExc THEN d
         ELSE IF ~NoArraySize(node)
         THEN Ok(emit(d.s, "alloc", node.var_name, ToString(node.array_size), NoRef),
                 NoRef, None)
         ELSE Ok(d.s, NoRef, None)
    ELSE IF node.type = "assignment"
    THEN IF HasIndex(node)
         THEN LET i == generate_code(s, node.index) IN
              IF i.exc # NoExc THEN i
              ELSE LET a == analyze_array_access(i.s, node.var_name, i.typ) IN
                   IF a.exc # NoExc THEN Raise(i.s, a.exc)
                   ELSE LET e == generate_code(i.s, node.expr) IN
                        IF e.exc # NoExc THEN e
                        ELSE IF ElementMismatch(a.typ, e.typ)
                        THEN Raise(e.s, ValueError(
                                 "Array element type mismatch in assignment to '"
                                 \o node.var_name \o "'"))
                        ELSE LET t == new_temp(e.s) IN
                             Ok(emit(t.s, "arraystore", node.var_name, i.res, e.res),
                                NoRef, None)
         ELSE LET e == generate_code(s, node.expr) IN
              IF e.exc # NoExc THEN e
              ELSE LET a == analyze_assignment(e.s, node.var_name, e.typ) IN
                   IF a.exc # NoExc THEN Raise(e.s, a.exc)
                   ELSE IF NeedsConversion(a.typ, e.typ)
                   THEN LET t == new_temp(e.s) IN
                        Ok(emit(emit(t.s, "inttofloat", e.res, NoRef, t.name),
                                "=", t.name, NoRef, node.var_name),
                           NoRef, None)
                   ELSE Ok(emit(e.s, "=", e.res, NoRef, node.var_name), NoRef, None)
    ELSE IF node.type = "binary_op"
    THEN LET l == generate_code(s, node.left) IN
         IF l.exc # NoExc THEN l
         ELSE LET r == generate_code(l.s, node.right) IN
              IF r.exc # NoExc THEN r
              ELSE LET a == analyze_binary_op(l.typ, r.typ, node.op) IN
                   IF a.exc # NoExc THEN Raise(r.s, a.exc)
                   ELSE LET t == new_temp(r.s) IN
                        Ok(emit(t.s, node.op, l.res, r.res, t.name), t.name, a.typ)
    ELSE IF node.type = "unary_op"
    THEN LET o == generate_code(s, node.operand) IN
         IF o.exc # NoExc THEN o
         ELSE LET a == analyze_unary_op(o.typ, node.op) IN
              IF a.exc # NoExc THEN Raise(o.s, a.exc)
              ELSE LET t == new_temp(o.s) IN
                   Ok(emit(t.s, node.op, o.res, NoRef, t.name), t.name, a.typ)
    ELSE IF node.type = "array_access"
    THEN LET c == check_symbol(s.scopes, s.current_scope, node.array_name) IN
         IF c.exc # NoExc THEN Raise(s, c.exc)
         ELSE LET i == generate_code(s, node.index) IN
              IF i.exc # NoExc THEN i
              ELSE LET a == analyze_array_access(i.s, node.array_name, i.typ) IN
                   IF a.exc # NoExc THEN Raise(i.s, a.exc)
                   ELSE LET t == new_temp(i.s) IN
                        Ok(emit(t.s, "arrayload", node.array_name, i.res, t.name),
                           t.name, a.typ)
    ELSE IF node.type = "if"
    THEN LET c == generate_code(s, node.condition) IN
         IF c.exc # NoExc THEN c
         ELSE IF c.typ # BOOL
         THEN Raise(c.s, ValueError("If condition must be boolean"))
         ELSE LET else_label == new_label(c.s)
                  end_label == new_label(else_label.s)
                  t == generate_code(emit(end_label.s, "ifnot", c.res, NoRef,
                                          else_label.name),
                                     node.then_block)
                  jumped == IF HasElse(node)
                            THEN emit(t.s, "goto", NoRef, NoRef, end_label.name)
                            ELSE t.s
                  labelled == emit(jumped, "label", else_label.name, NoRef, NoRef)
              IN IF t.exc # NoExc THEN t
                 ELSE IF HasElse(node)
                 THEN LET e == generate_code(labelled, node.else_block) IN
                      IF e.exc # NoExc THEN e
                      ELSE Ok(emit(e.s, "label", end_label.name, NoRef, NoRef),
                              NoRef, None)
                 ELSE Ok(labelled, NoRef, None)
    ELSE IF node.type = "while"
    THEN LET start_label == new_label(s)
             end_label == new_label(start_label.s)
             c == generate_code(emit(end_label.s, "label", start_label.name, NoRef, NoRef),
                                node.condition)
         IN IF c.exc # NoExc THEN c
            ELSE IF LoopConditionBad(c.typ)
            THEN Raise(c.s, ValueError("While condition must be boolean"))
            ELSE LET b == generate_code(emit(c.s, "ifnot", c.res, NoRef, end_label.name),
                                        node.body) IN
                 IF b.exc # NoExc THEN b
                 ELSE Ok(emit(emit(b.s, "goto", NoRef, NoRef, start_label.name),
                              "label", end_label.name, NoRef, NoRef),
                         NoRef, None)
    ELSE IF node.type = "function_call"
    THEN LET g == generate_args(s, node.args) IN
         IF g.exc # NoExc THEN Raise(g.s, g.exc)
         ELSE LET a == analyze_function_call(g.s, node.func_name, g.types) IN
              IF a.exc # NoExc THEN Raise(g.s, a.exc)
              ELSE IF ~ReturnsValue(a.typ)
              THEN Ok(emit(g.s, "call", node.func_name, g.results, NoRef), NoRef, None)
              ELSE LET t == new_temp(g.s) IN
                   Ok(emit(t.s, "call", node.func_name, g.results, t.name),
                      t.name, a.typ)
    ELSE IF node.type = "variable"
    THEN LET c == check_symbol(s.scopes, s.current_scope, node.name) IN
         IF c.exc # NoExc THEN Raise(s, c.exc)
         ELSE Ok(s, node.name, c.entry.type)
    ELSE IF node.type = "literal"
    THEN IF LiteralType(node.value) = None
         THEN Raise(s, ValueError("Invalid literal value: " \o node.value.repr))
         ELSE Ok(s, node.value.repr, LiteralType(node.value))
    ELSE Ok(s, NoRef, None)

(***************************************************************************)
(* The session: calls made on one SemanticAnalyzer and on its scopes.      *)
(***************************************************************************)
MaxScopes == 2      \* scopes alive at once
MaxCalls == 1       \* expression-level generate_code calls in a session
MaxDecls == 2       \* declarations in a session of declarations
MaxSession == 3     \* calls in a session of mixed calls

State == [scopes |-> scopes, current_scope |-> current_scope, code |-> code,
          temp_count |-> temp_count, label_count |-> label_count,
          functions |-> functions]

Outcome(call, arg, exc, value) ==
    [call |-> call, arg |-> arg, exc |-> exc, value |-> value]
Pair(res, typ) == [res |-> res, typ |-> typ]

\* analyzer.generate_code(node), whether it returns or raises
GenerateCode(node) ==
    LET g == generate_code(State, node) IN
    /\ scopes' = g.s.scopes
    /\ current_scope' = g.s.current_scope
    /\ code' = g.s.code
    /\ temp_count' = g.s.temp_count
    /\ label_count' = g.s.label_count
    /\ last' = Outcome("generate_code", node, g.exc, Pair(g.res, g.typ))
    /\ UNCHANGED <<functions, pvars, rvars>>

\* scope.add_symbol(name, symbol_type, is_const) on scope i
AddSymbolOn(i, name, symbol_type, is_const) ==
    LET a == add_symbol(scopes[i].table, name, symbol_type, is_const) IN
    /\ scopes' = [scopes EXCEPT ![i].table = a.table]
    /\ last' = Outcome("add_symbol",
                       [scope |-> i, name |-> name, entry |-> Entry(symbol_type, is_const)],
                       a.exc, None)
    /\ UNCHANGED <<current_scope, code, temp_count, label_count, functions, calls, pvars, rvars>>

\* scope.check_symbol(name) on scope i
CheckSymbolOn(i, name) ==
    LET c == check_symbol(scopes, i, name) IN
    /\ last' = Outcome("check_symbol", [scope |-> i, name |-> name], c.exc, c.entry)
    /\ UNCHANGED <<scopes, current_scope, code, temp_count, label_count, functions,
                   calls, pvars, rvars>>

\* SemanticAnalyzer.enter_scope
EnterScope ==
    /\ Len(scopes) < MaxScopes
    /\ scopes' = Append(scopes, SymbolTable(current_scope))
    /\ current_scope' = Len(scopes) + 1
    /\ last' = Outcome("enter_scope", None, NoExc, None)
    /\ UNCHANGED <<code, temp_count, label_count, functions, calls, pvars, rvars>>

\* SemanticAnalyzer.exit_scope; the scope left is no longer referenced
ExitScope ==
    /\ IF scopes[current_scope].parent # 0
       THEN /\ current_scope' = scopes[current_scope].parent
            /\ scopes' = SubSeq(scopes, 1, current_scope - 1)
       ELSE UNCHANGED <<scopes, current_scope>>
    /\ last' = Outcome("exit_scope", None, NoExc, None)
    /\ UNCHANGED <<code, temp_count, label_count, functions, calls, pvars, rvars>>

(***************************************************************************)
(* Inputs of the session.                                                  *)
(***************************************************************************)
Names == {"x", "y"}
Entries == {Entry(INT, FALSE), Entry(FLOAT, TRUE)}

Literal(py, repr) == [type |-> "literal", value |-> [py |-> py, repr |-> repr]]
CharLiteral(c) == [type |-> "literal", value |-> [py |-> "str", repr |-> c, len |-> 1]]
Variable(name) == [type |-> "variable", name |-> name]
BinaryOp(op, left, right) ==
    [type |-> "binary_op", op |-> op, left |-> left, right |-> right]
ArrayDeclaration(data_type, var_name, array_size) ==
    [type |-> "declaration", data_type |-> data_type, var_name |-> var_name,
     array_size |-> array_size]

\* operands of each type: BOOL, INT, FLOAT, CHAR, an ArrayType (once a is declared)
Leaves == {Literal("bool", "True"), Literal("int", "5"), Literal("float", "2.5"),
           CharLiteral("c"), Variable("a")}
\* operands that emit instructions of their own
Compound == {BinaryOp("+", Literal("int", "5"), Literal("float", "2.5")),
             BinaryOp("<", Literal("int", "3"), Literal("int", "5"))}
\* operator symbols outside the three sets of analyze_binary_op
OtherOps == {"%", "!"}
\* the binary_op nodes over ops: every pair of leaves, and compound operands
\* on either side
BinaryOpNodes(ops) ==
    {BinaryOp(op, l, r) : op \in ops, l \in Leaves, r \in Leaves}
    \cup {BinaryOp(op, l, r) : op \in ops, l \in Compound, r \in Leaves \cup Compound}
    \cup {BinaryOp(op, l, r) : op \in ops, l \in Leaves, r \in Compound}
ArrayDeclarations == {ArrayDeclaration("int", "a", 2)}

Declaration(data_type, var_name) ==
    [type |-> "declaration", data_type |-> data_type, var_name |-> var_name]
ConstDeclaration(data_type, var_name) ==
    [type |-> "declaration", data_type |-> data_type, var_name |-> var_name,
     is_const |-> TRUE]
Assign(var_name, expr) == [type |-> "assignment", var_name |-> var_name, expr |-> expr]
AssignElement(var_name, index, expr) ==
    [type |-> "assignment", var_name |-> var_name, index |-> index, expr |-> expr]

\* the variables of the assignments: an INT, a FLOAT, a const INT, an array
VarDeclarations == {Declaration("int", "x"), Declaration("float", "y"),
                    ConstDeclaration("int", "k"), ArrayDeclaration("int", "a", 2)}
\* expressions of each type, two of them with an instruction of their own
Expressions == Leaves \cup {Variable("x"),
                            BinaryOp("+", Literal("int", "3"), Literal("int", "5")),
                            BinaryOp("+", Literal("int", "5"), Literal("float", "2.5"))}
Assignments == {Assign(v, e) : v \in {"x", "y", "k", "a"}, e \in Expressions}

ConstArrayDeclaration(data_type, var_name, array_size) ==
    [type |-> "declaration", data_type |-> data_type, var_name |-> var_name,
     array_size |-> array_size, is_const |-> TRUE]
\* scalars and arrays, const or not, of sizes positive, zero and negative,
\* one of a type outside SymbolType, and the enum members 'array', 'function'
AnyDeclarations ==
    {Declaration("int", "x"), Declaration("float", "x"), ConstDeclaration("int", "x"),
     Declaration("string", "x"),
     Declaration("array", "x"), ArrayDeclaration("function", "a", 2),
     ArrayDeclaration("int", "a", 2), ArrayDeclaration("float", "a", 1),
     ArrayDeclaration("int", "x", 2), ConstArrayDeclaration("float", "a", 2),
     ArrayDeclaration("int", "a", 0), ArrayDeclaration("int", "a", -1),
     ArrayDeclaration("string", "a", 2)}

ArrayAccess(array_name, index) ==
    [type |-> "array_access", array_name |-> array_name, index |-> index]
\* an INT array, a FLOAT array and a scalar
ElementDeclarations == {ArrayDeclaration("int", "a", 2), ArrayDeclaration("float", "b", 2),
                        Declaration("int", "x")}
\* indices: INT, FLOAT, INT with an instruction of its own, a variable
Indices == {Literal("int", "1"), Literal("float", "1.5"),
            BinaryOp("+", Literal("int", "3"), Literal("int", "5")), Variable("x")}
\* values: INT, FLOAT, INT with an instruction of its own, CHAR
Values == {Literal("int", "5"), Literal("float", "2.5"),
           BinaryOp("+", Literal("int", "3"), Literal("int", "5")), CharLiteral("c")}
ElementAssignments ==
    {AssignElement(v, i, e) : v \in {"a", "b", "x"}, i \in Indices, e \in Values}
ArrayAccesses == {ArrayAccess(v, i) : v \in {"a", "b", "x"}, i \in Indices}

If(condition, then_block) ==
    [type |-> "if", condition |-> condition, then_block |-> then_block]
IfElse(condition, then_block, else_block) ==
    [type |-> "if", condition |-> condition, then_block |-> then_block,
     else_block |-> else_block]
While(condition, body) == [type |-> "while", condition |-> condition, body |-> body]
Block(statements) == [type |-> "block", statements |-> statements]

FlowDeclarations == {Declaration("int", "x")}
\* conditions: BOOL with an instruction of its own (two), BOOL without, INT (two)
Conditions == {BinaryOp(">", Variable("x"), Literal("int", "0")),
               BinaryOp("<", Literal("int", "1"), Literal("int", "2")),
               Literal("bool", "True"), Literal("int", "1"), Variable("x")}
\* an empty block, a block of one assignment, an assignment, a loop
Bodies == {Block(<<>>), Block(<<Assign("x", Literal("int", "1"))>>),
           Assign("x", Literal("int", "1")), While(Literal("bool", "True"), Block(<<>>))}
FlowNodes ==
    {If(c, t) : c \in Conditions, t \in Bodies}
    \cup {IfElse(c, t, e) : c \in Conditions, t \in Bodies,
                            e \in {Block(<<>>), Assign("x", Literal("int", "2"))}}
    \cup {While(c, b) : c \in Conditions, b \in Bodies}
    \cup {b \in Bodies : b.type = "block"}

FunctionCall(func_name, args) ==
    [type |-> "function_call", func_name |-> func_name, args |-> args]
\* the value of analyzer.functions[name]
FuncInfo(return_type, params) == [return_type |-> return_type, params |-> params]
\* one function of each return type
Registrations ==
    {[name |-> "pow", info |-> FuncInfo(FLOAT, <<FLOAT, FLOAT>>)],
     [name |-> "f", info |-> FuncInfo(INT, <<INT>>)],
     [name |-> "p", info |-> FuncInfo(BOOL, <<INT>>)],
     [name |-> "c", info |-> FuncInfo(CHAR, <<>>)]}
\* no argument, one, two and three, of types FLOAT, INT, BOOL, one with an
\* instruction of its own
ArgLists ==
    {<<>>,
     <<Literal("float", "2.0")>>,
     <<Literal("float", "2.0"), Literal("float", "3.0")>>,
     <<Literal("float", "2.0"), Literal("bool", "True")>>,
     <<Literal("float", "2.0"), Literal("int", "5")>>,
     <<Literal("int", "1")>>,
     <<BinaryOp("+", Literal("int", "1"), Literal("int", "2"))>>,
     <<Literal("int", "1"), Literal("int", "2")>>,
     <<Literal("float", "2.0"), Literal("float", "3.0"), Literal("float", "4.0")>>}
FunctionCalls ==
    {FunctionCall(r.name, args) : r \in Registrations, args \in ArgLists}

UnaryOp(op, operand) == [type |-> "unary_op", op |-> op, operand |-> operand]
\* a node of a kind generate_code has no branch for
Unrecognised == [type |-> "program"]

\* nodes of every kind: declarations, assignments that succeed and that fail,
\* operations, nested ifs and loops, leaves, a block, an unrecognised node
SessionNodes ==
    {Declaration("int", "x"), ConstDeclaration("int", "k"),
     ConstArrayDeclaration("int", "c", 2),
     Assign("x", BinaryOp("+", Literal("int", "3"), Literal("int", "5"))),
     Assign("k", Literal("int", "5")),
     AssignElement("c", Literal("int", "1"), Literal("int", "5")),
     UnaryOp("-", Literal("int", "5")),
     BinaryOp("&&", BinaryOp("<", Literal("int", "1"), Literal("int", "2")),
              Literal("int", "5")),
     If(BinaryOp("<", Literal("int", "1"), Literal("int", "2")),
        While(Literal("bool", "True"), Block(<<>>))),
     IfElse(Literal("bool", "True"),
            While(BinaryOp("<", Literal("int", "1"), Literal("int", "2")), Block(<<>>)),
            If(Literal("bool", "True"), Block(<<>>))),
     While(Literal("int", "1"), Block(<<>>)),
     While(BinaryOp("<", Literal("int", "1"), Literal("int", "2")),
           IfElse(Literal("bool", "True"), Block(<<>>), Block(<<>>))),
     If(Literal("bool", "True"), Assign("k", Literal("int", "5"))),
     Variable("x"), Literal("int", "5"), CharLiteral("c"), Unrecognised,
     Block(<<Declaration("float", "x"), Assign("x", Literal("float", "2.5"))>>)}
\* instructions handed to emit directly
Quads == {Quad("nop", NoRef, NoRef, NoRef), Quad("=", "5", NoRef, "x")}

\* no file has been read
RIdle ==
    /\ file = <<>>
    /\ textLines = <<>>
    /\ reader = "idle"

\* SemanticAnalyzer.__init__
SInit ==
    /\ scopes = <<SymbolTable(0)>>
    /\ current_scope = 1
    /\ code = <<>>
    /\ temp_count = 0
    /\ label_count = 0
    /\ functions = <<>>
    /\ last = Outcome("init", None, NoExc, None)
    /\ calls = 0

\* no parser at work
PIdle ==
    /\ tokens = <<EOFToken>>
    /\ pos = 0
    /\ current_token = EOFToken
    /\ stack = <<>>
    /\ ret = None
    /\ status = "idle"
    /\ err = NoErr

(***************************************************************************)
(* Spec: one Parser, constructed on a token list, runs parse().            *)
(***************************************************************************)
\* Parser.__init__ followed by the call of parse()
PInit ==
    /\ tokens \in AllInputs \cup ProgramInputs
    /\ pos = 0
    /\ current_token = tokens[1]
    /\ stack = <<Frame("parse")>>
    /\ ret = None
    /\ status = "running"
    /\ err = NoErr

Init == PInit /\ SInit /\ RIdle

Next ==
    \/ Parse
    \/ Statement
    \/ VarDeclStmt
    \/ AssignmentStmt
    \/ Expr
    \/ Term
    \/ Factor
    \/ Eat

Spec == Init /\ [][Next]_vars

\* the parser runs on one call stack with nothing to wait for: while a step
\* is possible, one is taken
FairSpec == Spec /\ WF_vars(Next)

(***************************************************************************)
(* SymSpec: calls of add_symbol and check_symbol on the scopes of one      *)
(* analyzer, between enter_scope and exit_scope.                           *)
(***************************************************************************)
AddSymbol ==
    \E i \in 1..Len(scopes), name \in Names, e \in Entries :
        AddSymbolOn(i, name, e.type, e.is_const)

CheckSymbol == \E i \in 1..Len(scopes), name \in Names : CheckSymbolOn(i, name)

SymInit == PIdle /\ SInit /\ RIdle

SymNext ==
    \/ AddSymbol
    \/ CheckSymbol
    \/ EnterScope
    \/ ExitScope

SymSpec == SymInit /\ [][SymNext]_vars

(***************************************************************************)
(* ArithSpec, RelSpec, LogicSpec: array declarations and binary operations *)
(* handed to generate_code, the operators drawn from the arithmetic, the   *)
(* relational, and the logical and unknown operators.                      *)
(***************************************************************************)
Declare ==
    /\ \E node \in ArrayDeclarations : GenerateCode(node)
    /\ UNCHANGED calls

GenBinaryOp(ops) ==
    /\ calls < MaxCalls
    /\ calls' = calls + 1
    /\ \E node \in BinaryOpNodes(ops) : GenerateCode(node)

GenArithmetic == GenBinaryOp(ArithmeticOps)
GenRelational == GenBinaryOp(RelationalOps)
GenLogical == GenBinaryOp(LogicalOps \cup OtherOps)

BinInit == PIdle /\ SInit /\ RIdle

ArithNext ==
    \/ Declare
    \/ GenArithmetic

ArithSpec == BinInit /\ [][ArithNext]_vars

RelNext ==
    \/ Declare
    \/ GenRelational

RelSpec == BinInit /\ [][RelNext]_vars

LogicNext ==
    \/ Declare
    \/ GenLogical

LogicSpec == BinInit /\ [][LogicNext]_vars

(***************************************************************************)
(* AssignSpec: declarations of variables and scalar assignments to them.   *)
(***************************************************************************)
DeclareVar ==
    /\ \E node \in VarDeclarations : GenerateCode(node)
    /\ UNCHANGED calls

GenAssignment ==
    /\ calls < MaxCalls
    /\ calls' = calls + 1
    /\ \E node \in Assignments : GenerateCode(node)

AssignNext ==
    \/ DeclareVar
    \/ GenAssignment

AssignSpec == BinInit /\ [][AssignNext]_vars

(***************************************************************************)
(* ArraySpec: declarations of arrays, assignments to their elements and    *)
(* reads of their elements.                                                *)
(***************************************************************************)
DeclareElement ==
    /\ \E node \in ElementDeclarations : GenerateCode(node)
    /\ UNCHANGED calls

GenArrayStore ==
    /\ calls < MaxCalls
    /\ calls' = calls + 1
    /\ \E node \in ElementAssignments : GenerateCode(node)

GenArrayLoad ==
    /\ calls < MaxCalls
    /\ calls' = calls + 1
    /\ \E node \in ArrayAccesses : GenerateCode(node)

ArrayNext ==
    \/ DeclareElement
    \/ GenArrayStore
    \/ GenArrayLoad

ArraySpec == BinInit /\ [][ArrayNext]_vars

(***************************************************************************)
(* DeclSpec: declarations in the scopes of one analyzer.                   *)
(***************************************************************************)
DeclareAny ==
    /\ calls < MaxDecls
    /\ calls' = calls + 1
    /\ \E node \in AnyDeclarations : GenerateCode(node)

DeclNext ==
    \/ DeclareAny
    \/ EnterScope
    \/ ExitScope

DeclSpec == BinInit /\ [][DeclNext]_vars

(***************************************************************************)
(* FlowSpec: a declaration, and if, while and block nodes.                 *)
(***************************************************************************)
DeclareFlow ==
    /\ \E node \in FlowDeclarations : GenerateCode(node)
    /\ UNCHANGED calls

GenFlow ==
    /\ calls < MaxCalls
    /\ calls' = calls + 1
    /\ \E node \in FlowNodes : GenerateCode(node)

FlowNext ==
    \/ DeclareFlow
    \/ GenFlow

FlowSpec == BinInit /\ [][FlowNext]_vars

(***************************************************************************)
(* CallSpec: functions registered in the analyzer's table, and calls.      *)
(***************************************************************************)
\* analyzer.functions[name] = {'return_type': ..., 'params': [...]}
RegisterFunction ==
    /\ \E r \in Registrations :
          /\ functions' = (r.name :> r.info) @@ functions
          /\ last' = Outcome("register", r, NoExc, None)
    /\ UNCHANGED <<scopes, current_scope, code, temp_count, label_count, calls, pvars, rvars>>

GenFunctionCall ==
    /\ calls < MaxCalls
    /\ calls' = calls + 1
    /\ \E node \in FunctionCalls : GenerateCode(node)

CallNext ==
    \/ RegisterFunction
    \/ GenFunctionCall

CallSpec == BinInit /\ [][CallNext]_vars

(***************************************************************************)
(* SessionSpec: one analyzer and its code generator, on which new_temp,    *)
(* new_label, emit and generate_code are called in any order.              *)
(***************************************************************************)
\* code_gen.new_temp()
NewTemp ==
    /\ calls < MaxSession
    /\ calls' = calls + 1
    /\ LET t == new_temp(State) IN
       /\ temp_count' = t.s.temp_count
       /\ last' = Outcome("new_temp", None, NoExc, Pair(t.name, None))
    /\ UNCHANGED <<scopes, current_scope, code, label_count, functions, pvars, rvars>>

\* code_gen.new_label()
NewLabel ==
    /\ calls < MaxSession
    /\ calls' = calls + 1
    /\ LET l == new_label(State) IN
       /\ label_count' = l.s.label_count
       /\ last' = Outcome("new_label", None, NoExc, Pair(l.name, None))
    /\ UNCHANGED <<scopes, current_scope, code, temp_count, functions, pvars, rvars>>

\* code_gen.emit(op, arg1, arg2, result)
Emit ==
    /\ calls < MaxSession
    /\ calls' = calls + 1
    /\ \E q \in Quads :
          /\ code' = emit(State, q.op, q.arg1, q.arg2, q.result).code
          /\ last' = Outcome("emit", q, NoExc, None)
    /\ UNCHANGED <<scopes, current_scope, temp_count, label_count, functions, pvars, rvars>>

GenNode ==
    /\ calls < MaxSession
    /\ calls' = calls + 1
    /\ \E node \in SessionNodes : GenerateCode(node)

SessionNext ==
    \/ NewTemp
    \/ NewLabel
    \/ Emit
    \/ GenNode

SessionSpec == BinInit /\ [][SessionNext]_vars

\* the names the two counters have issued so far
IssuedTemps == {TempName(n) : n \in 0 .. temp_count - 1}
IssuedLabels == {LabelName(n) : n \in 0 .. label_count - 1}
AllTemps == {TempName(n) : n \in 0 .. 4 * MaxSession}
AllLabels == {LabelName(n) : n \in 0 .. 4 * MaxSession}
\* instruction i of the log stores into a temporary / defines a label
DefinesTemp(i) ==
    /\ code[i].op \notin {"=", "arraystore", "label", "goto", "ifnot", "nop"}
    /\ code[i].result \in AllTemps
DefinesLabel(i) == code[i].op = "label"
NewTempCall == calls' = calls + 1 /\ last'.call = "new_temp"
NewLabelCall == calls' = calls + 1 /\ last'.call = "new_label"

NamesIssuedOnce ==
    /\ \A i \in DOMAIN code : DefinesTemp(i) => code[i].result \in IssuedTemps
    /\ \A i \in DOMAIN code : DefinesLabel(i) => code[i].arg1 \in IssuedLabels
    /\ \A i, j \in DOMAIN code :
          (i < j /\ DefinesTemp(i) /\ DefinesTemp(j)) => code[i].result # code[j].result
    /\ \A i, j \in DOMAIN code :
          (i < j /\ DefinesLabel(i) /\ DefinesLabel(j)) => code[i].arg1 # code[j].arg1

CountersAdvance ==
    /\ temp_count' >= temp_count
    /\ label_count' >= label_count
    /\ NewTempCall =>
          /\ last'.value.res = TempName(temp_count)
          /\ temp_count' = temp_count + 1
          /\ label_count' = label_count
    /\ NewLabelCall =>
          /\ last'.value.res = LabelName(label_count)
          /\ label_count' = label_count + 1
          /\ temp_count' = temp_count

\* C21: new_temp returns t<k> and new_label L<k>, where k is the number of
\* names of that kind issued before in the session; each advances its own
\* counter by one and leaves the other alone; no step of a session, failing
\* analysis calls included, lowers a counter; and no temporary and no label is
\* given to two instructions of the log.
C21_FreshNames ==
    /\ [][CountersAdvance]_vars
    /\ []NamesIssuedOnce

\* a temporary issued directly after analysis calls issued t0 and one failed
C21_Witness ==
    /\ last.call = "new_temp" /\ last.value.res = "t1"
    /\ \E i \in DOMAIN code : DefinesTemp(i) /\ code[i].result = "t0"
    /\ \E i \in DOMAIN code : DefinesLabel(i)

IsPrefix(a, b) == Len(a) <= Len(b) /\ SubSeq(b, 1, Len(a)) = a
EmitCall == calls' = calls + 1 /\ last'.call = "emit"
LogGrows ==
    /\ IsPrefix(code, code')
    /\ EmitCall => code' = Append(code, last'.arg)

\* C22: in every step of a session the log before the step is a prefix of the
\* log after it, and emit appends exactly the one quad it was given; a failing
\* analysis call keeps what it appended before it failed.
C22_AppendOnly == [][LogGrows]_vars

\* a binary operation failed after its left operand was lowered, on top of
\* a log that already held an instruction
C22_Witness ==
    /\ last.call = "generate_code" /\ last.exc # NoExc
    /\ last.arg.type = "binary_op"
    /\ Len(code) = 2 /\ code[2].op = "<" /\ code[1].op = "nop"

\* the discriminators generate_code has a branch for
HandledTypes ==
    {"declaration", "assignment", "binary_op", "unary_op", "array_access",
     "if", "while", "function_call", "variable", "literal"}
NodeCall == calls' = calls + 1 /\ last'.call = "generate_code"
\* the node is a variable that resolves, a valid literal, or not recognised
ChangesNothing(node) ==
    \/ /\ node.type = "variable"
       /\ check_symbol(scopes, current_scope, node.name).exc = NoExc
    \/ /\ node.type = "literal"
       /\ node.value.py \in {"bool", "int", "float"}
             \/ (node.value.py = "str" /\ node.value.len = 1)
    \/ node.type \notin HandledTypes
LeafValue(node) ==
    IF node.type = "variable"
    THEN Pair(node.name, check_symbol(scopes, current_scope, node.name).entry.type)
    ELSE IF node.type = "literal"
    THEN Pair(node.value.repr,
              CASE node.value.py = "bool" -> BOOL
                [] node.value.py = "int" -> INT
                [] node.value.py = "float" -> FLOAT
                [] node.value.py = "str" -> CHAR)
    ELSE Pair(NoRef, None)
LeafContract ==
    (NodeCall /\ ChangesNothing(last'.arg)) =>
        /\ last'.exc = NoExc
        /\ last'.value = LeafValue(last'.arg)
        /\ UNCHANGED <<scopes, current_scope, code, temp_count, label_count, functions>>

\* C30: generate_code on a variable that resolves, on a valid literal, or on a
\* node of no handled kind does not fail, returns (name, declared type),
\* (value, literal type) or (None, None), and leaves the log, both counters,
\* the current scope and every scope's table as they were.
C30_LeavesChangeNothing == [][LeafContract]_vars

\* a character literal evaluated in a session that has a symbol and a log
C30_Witness ==
    /\ last.call = "generate_code" /\ last.arg = CharLiteral("c")
    /\ last.value = Pair("c", CHAR)
    /\ Len(code) > 0 /\ temp_count > 0
    /\ check_symbol(scopes, current_scope, "x").exc = NoExc

\* likewise an unrecognised node, which yields (None, None)
C30_WitnessUnrecognised ==
    /\ last.call = "generate_code" /\ last.arg = Unrecognised
    /\ last.value = Pair(NoRef, None) /\ last.exc = NoExc
    /\ Len(code) > 0

\* the label instructions of log c that define the label name l
Definitions(c, l) == {j \in DOMAIN c : c[j].op = "label" /\ c[j].arg1 = l}
Jumps(c) == {i \in DOMAIN c : c[i].op \in {"ifnot", "goto"}}
LabelsResolve(c) ==
    /\ \A i \in Jumps(c) : Cardinality(Definitions(c, c[i].result)) = 1
    /\ \A j \in DOMAIN c :
          c[j].op = "label" => Cardinality(Definitions(c, c[j].arg1)) = 1
\* a session without a failed call keeps the log's labels resolved: stated
\* step by step, a call that returns normally on a log whose labels resolve
\* leaves a log whose labels resolve
JumpsContract ==
    (NodeCall /\ LabelsResolve(code) /\ last'.exc = NoExc) => LabelsResolve(code')

\* C27: as long as no analysis call has failed, after each generate_code call
\* every label that an ifnot or goto of the log targets is defined by exactly
\* one label instruction, and no label is defined twice, however ifs (with or
\* without else) and whiles are nested.
C27_LabelsResolve ==
    /\ LabelsResolve(<<>>)
    /\ [][JumpsContract]_vars

\* an if-else holding a while and an if, lowered after an if holding a while
C27_Witness ==
    /\ last.call = "generate_code" /\ last.exc = NoExc
    /\ last.arg.type = "if" /\ HasElse(last.arg)
    /\ label_count = 10 /\ Cardinality(Jumps(code)) = 8
    /\ LabelsResolve(code)

\* a failing call may leave a jump to a label that is never defined
C27_WitnessFailed ==
    /\ last.call = "generate_code" /\ last.exc # NoExc
    /\ ~LabelsResolve(code)

\* the instructions of the log whose result field is a temporary
TempResults == {i \in DOMAIN code : code[i].result \in AllTemps}
\* the operand fields of instruction i (the arguments of a call are apart)
Operands(i) ==
    IF code[i].op = "call" THEN {code[i].arg1} ELSE {code[i].arg1, code[i].arg2}
EarlierResults(i, t) == {j \in 1 .. i - 1 : code[j].result = t}

\* C28: when a generate_code call has returned or failed, the temporary
\* counter equals the number of instructions of the log whose result field is
\* a temporary, and every temporary used as an operand is the result of
\* exactly one earlier instruction.
C28_TempsDefined ==
    last.call = "generate_code" =>
        /\ temp_count = Cardinality(TempResults)
        /\ \A i \in DOMAIN code : \A t \in Operands(i) \cap AllTemps :
              Cardinality(EarlierResults(i, t)) = 1

(***************************************************************************)
(* The grammar of the specification, read as a definition of the tree of a *)
(* token range: an expression splits at its last + or - outside            *)
(* parentheses, a term at its last * or / outside parentheses, and a       *)
(* factor is one number, one identifier or a parenthesised expression.     *)
(***************************************************************************)
Reject == [k |-> "Reject"]

RECURSIVE Balance(_, _, _)
\* opening minus closing parentheses in t[lo..hi]
Balance(t, lo, hi) ==
    IF lo > hi THEN 0
    ELSE Balance(t, lo, hi - 1)
         + (IF t[hi].type = "LPAREN" THEN 1 ELSE IF t[hi].type = "RPAREN" THEN -1 ELSE 0)

SetMax(S) == CHOOSE x \in S : \A y \in S : y <= x

\* the operators of ops in t[lo..hi] that stand outside every parenthesis
Outer(t, lo, hi, ops) ==
    {k \in lo..hi : t[k].type \in ops /\ Balance(t, lo, k - 1) = 0}

Join(l, op, r) == IF l = Reject \/ r = Reject THEN Reject ELSE BinOp(l, op, r)

RECURSIVE RefExpr(_, _, _), RefTerm(_, _, _), RefFactor(_, _, _)
RefExpr(t, lo, hi) ==
    IF lo > hi THEN Reject
    ELSE LET S == Outer(t, lo, hi, {"PLUS", "MINUS"}) IN
         IF S = {} THEN RefTerm(t, lo, hi)
         ELSE LET k == SetMax(S) IN
              Join(RefExpr(t, lo, k - 1), t[k], RefTerm(t, k + 1, hi))
RefTerm(t, lo, hi) ==
    IF lo > hi THEN Reject
    ELSE LET S == Outer(t, lo, hi, {"MUL", "DIV"}) IN
         IF S = {} THEN RefFactor(t, lo, hi)
         ELSE LET k == SetMax(S) IN
              Join(RefTerm(t, lo, k - 1), t[k], RefFactor(t, k + 1, hi))
RefFactor(t, lo, hi) ==
    IF lo > hi THEN Reject
    ELSE IF lo = hi
    THEN IF t[lo].type \in {"INTEGER", "FLOAT"} THEN Num(t[lo])
         ELSE IF t[lo].type = "IDENTIFIER" THEN Var(t[lo])
         ELSE Reject
    ELSE IF t[lo].type = "LPAREN" /\ t[hi].type = "RPAREN"
         THEN RefExpr(t, lo + 1, hi - 1)
         ELSE Reject

\* the tokens before the first end-of-input token
BodyLen(t) ==
    IF \E i \in 1..Len(t) : t[i].type = "EOF"
    THEN (CHOOSE i \in 1..Len(t) :
             t[i].type = "EOF" /\ \A j \in 1..(i - 1) : t[j].type # "EOF") - 1
    ELSE Len(t)

\* a statement begins with the first token, after a semicolon, and where a
\* token that can begin a statement follows one that can end an operand
OperandEnd == {"INTEGER", "FLOAT", "IDENTIFIER", "RPAREN"}
StatementBegin == {"INTEGER", "FLOAT", "IDENTIFIER", "LPAREN", "LET"}
Starts(t) ==
    {i \in 1..BodyLen(t) :
        \/ i = 1
        \/ t[i - 1].type = "SEMICOLON"
        \/ t[i].type \in StatementBegin /\ t[i - 1].type \in OperandEnd}

\* the last token of the statement that begins at i, its semicolon left out
StatementEnd(t, i) ==
    LET later == {j \in Starts(t) : j > i}
        stop == IF later = {} THEN BodyLen(t)
                ELSE (CHOOSE j \in later : \A m \in later : j <= m) - 1
    IN IF stop >= i /\ t[stop].type = "SEMICOLON" THEN stop - 1 ELSE stop

Wrap(kind, identifier, e) ==
    IF e = Reject THEN Reject
    ELSE IF kind = "VarDecl" THEN VarDecl(identifier, e) ELSE Assignment(identifier, e)

RefStatement(t, lo, hi) ==
    IF lo > hi THEN Reject
    ELSE IF t[lo].type = "LET"
    THEN IF hi >= lo + 3 /\ t[lo + 1].type = "IDENTIFIER" /\ t[lo + 2].type = "ASSIGN"
         THEN Wrap("VarDecl", t[lo + 1].value, RefExpr(t, lo + 3, hi))
         ELSE Reject
    ELSE IF t[lo].type = "IDENTIFIER" /\ hi >= lo + 1 /\ t[lo + 1].type = "ASSIGN"
    THEN Wrap("Assignment", t[lo].value, RefExpr(t, lo + 2, hi))
    ELSE RefExpr(t, lo, hi)

\* the starts of the statements of t, in source order
RECURSIVE Ascending(_)
Ascending(S) ==
    IF S = {} THEN <<>>
    ELSE LET m == CHOOSE x \in S : \A y \in S : x <= y IN <<m>> \o Ascending(S \ {m})

RefStatements(t) ==
    LET ss == Ascending(Starts(t)) IN
    [i \in 1..Len(ss) |-> RefStatement(t, ss[i], StatementEnd(t, ss[i]))]

InGrammar(t) == \A i \in 1..Len(RefStatements(t)) : RefStatements(t)[i] # Reject

Finished == status \in {"returned", "raised"}

(***************************************************************************)
(* Properties of the parser (Spec).                                        *)
(***************************************************************************)
Types(t) == [i \in 1..Len(t) |-> t[i].type]

\* C1: every expression of the grammar over numbers, identifiers, + - * /
\* and parentheses is returned as the tree in which * and / bind tighter
\* than + and -, a parenthesised expression is one operand and operators of
\* equal precedence associate to the left; so 2 + 3 * 4 is +(2, *(3, 4)),
\* (2 + 3) * 4 is *(+(2, 3), 4) and a - b - c is -(-(a, b), c).
C1_Precedence ==
    Finished =>
        LET t == tokens
            e == RefExpr(t, 1, BodyLen(t)) IN
        /\ e # Reject => status = "returned" /\ ret = Program(<<e>>)
        /\ Types(t) \in {<<"INTEGER", "PLUS", "INTEGER", "MUL", "INTEGER", "EOF">>,
                         <<"INTEGER", "MINUS", "INTEGER", "DIV", "INTEGER", "EOF">>}
             => ret = Program(<<BinOp(Num(t[1]), t[2], BinOp(Num(t[3]), t[4], Num(t[5])))>>)
        /\ Types(t) = <<"LPAREN", "INTEGER", "PLUS", "INTEGER", "RPAREN", "MUL",
                        "INTEGER", "EOF">>
             => ret = Program(<<BinOp(BinOp(Num(t[2]), t[3], Num(t[4])), t[6], Num(t[7]))>>)
        /\ Types(t) \in {<<"INTEGER", "MINUS", "INTEGER", "MINUS", "INTEGER", "EOF">>,
                         <<"INTEGER", "DIV", "INTEGER", "MUL", "INTEGER", "EOF">>}
             => ret = Program(<<BinOp(BinOp(Num(t[1]), t[2], Num(t[3])), t[4], Num(t[5]))>>)
        /\ Types(t) = <<"IDENTIFIER", "MINUS", "IDENTIFIER">>
             => ret = Program(<<BinOp(Var(t[1]), t[2], Var(t[3]))>>)

\* (2 + 3) * 4 has been parsed
C1_Witness ==
    /\ status = "returned"
    /\ Types(tokens) = <<"LPAREN", "INTEGER", "PLUS", "INTEGER", "RPAREN", "MUL",
                         "INTEGER", "EOF">>
    /\ ret.statements[1].op.type = "MUL"
    /\ ret.statements[1].left.op.type = "PLUS"

EatContract ==
    Running("eat") =>
        IF current_token.type = Top.token_type
        THEN /\ pos' = pos + 1
             /\ current_token' = IF pos + 1 < Len(tokens) THEN tokens[pos + 2] ELSE EOFToken
             /\ status' = "running"
        ELSE /\ status' = "raised"
             /\ err' = [kind |-> "SyntaxError", line |-> current_token.line,
                        column |-> current_token.column, expected |-> Top.token_type,
                        found |-> current_token.type]
             /\ pos' = pos
             /\ current_token' = current_token

BinaryOperators == {"PLUS", "MINUS", "MUL", "DIV"}

\* the input ends in a binary operator with no right operand
MissingOperand == BodyLen(tokens) >= 1 /\ tokens[BodyLen(tokens)].type \in BinaryOperators

\* C3: eat(expectedKind) advances the cursor by exactly one token when the
\* current token has the expected kind; otherwise it fails at once with a
\* syntax error carrying the current token's line and column, the expected
\* and the found kind, and leaves the cursor and the current token as they
\* were.  An expression that ends in a binary operator with no right
\* operand, such as 1 +, makes parse fail with a syntax error.
C3_Eat ==
    /\ [][EatContract]_vars
    /\ [](Finished /\ MissingOperand => status = "raised" /\ err.kind = "SyntaxError")

\* eat has failed after an earlier eat moved the cursor
C3_Witness ==
    /\ status = "raised"
    /\ Top.fn = "eat"
    /\ pos >= 1
    /\ err.expected = "RPAREN"

\* C4: for a non-empty token list, with or without a trailing end-of-input
\* token, no step reads the list outside its bounds: the cursor stays
\* within 0..len, the current token is the token under the cursor, or the
\* end-of-input token once the cursor is past the last token, and the
\* lookahead of statement never raises an index error.
C4_NoOutOfBounds ==
    /\ err.kind # "IndexError"
    /\ 0 <= pos /\ pos <= Len(tokens)
    /\ current_token = IF pos < Len(tokens) THEN tokens[pos + 1] ELSE EOFToken

\* a list without end-of-input token whose last token is an identifier has
\* been parsed to its end
C4_Witness ==
    /\ status = "returned"
    /\ tokens[Len(tokens)].type = "IDENTIFIER"
    /\ pos = Len(tokens)
    /\ current_token = EOFToken

ExprKinds == {"Num", "Var", "BinOp"}

AddSymbolContract ==
    last'.call = "add_symbol" =>
        LET a == last'.arg
            before == scopes[a.scope].table IN
        /\ last'.exc # NoExc <=> a.name \in DOMAIN before
        /\ last'.exc # NoExc => scopes' = scopes
        /\ last'.exc = NoExc =>
             /\ DOMAIN scopes'[a.scope].table = DOMAIN before \cup {a.name}
             /\ scopes'[a.scope].table[a.name] = a.entry
             /\ \A n \in DOMAIN before : scopes'[a.scope].table[n] = before[n]
             /\ \A j \in 1..Len(scopes) : j # a.scope => scopes'[j] = scopes[j]
        /\ Len(scopes') = Len(scopes)
        /\ current_scope' = current_scope

\* C6: add_symbol(name, type, is_const) fails if and only if name already
\* has an entry in the scope it is called on; entries of ancestor scopes
\* never make it fail, and a failing call leaves the table, with the type
\* and const flag of the existing entry, unchanged.
C6_AddSymbol == [][AddSymbolContract]_vars

\* a name held by the outer scope has been declared in the inner scope, and
\* a second declaration of it there has failed
C6_Witness ==
    /\ last.call = "add_symbol"
    /\ last.exc # NoExc
    /\ last.arg.scope = 2
    /\ Len(scopes) = 2
    /\ last.arg.name \in DOMAIN scopes[1].table
    /\ scopes[2].table[last.arg.name] # last.arg.entry
    /\ scopes[2].table[last.arg.name] # scopes[1].table[last.arg.name]

\* the scopes from i outward along the parent links, innermost first
RECURSIVE Chain(_, _)
Chain(scs, i) == IF i = 0 THEN <<>> ELSE <<i>> \o Chain(scs, scs[i].parent)

\* the step is a call of check_symbol for a.name on scope a.scope
CheckSymbolContract ==
    last'.call = "check_symbol" =>
        LET a == last'.arg
            chain == Chain(scopes, a.scope)
            holders == {k \in 1..Len(chain) : a.name \in DOMAIN scopes[chain[k]].table} IN
        /\ last'.exc # NoExc <=> holders = {}
        /\ holders # {} =>
             LET k == CHOOSE k \in holders : \A m \in holders : k <= m IN
             last'.value = scopes[chain[k]].table[a.name]
        /\ scopes' = scopes
        /\ current_scope' = current_scope

\* C7: check_symbol(name) returns the entry of the innermost scope holding
\* name, searching from the scope it is called on outward along the parent
\* links; it fails if and only if no scope of that chain holds name, and it
\* never modifies a scope.
C7_CheckSymbol == [][CheckSymbolContract]_vars

\* a lookup from the inner scope has found a name declared only in the
\* outer scope, while the inner scope shadows another name of the outer one
C7_Witness ==
    /\ last.call = "check_symbol"
    /\ last.exc = NoExc
    /\ last.arg.scope = 2
    /\ Len(scopes) = 2
    /\ last.arg.name \notin DOMAIN scopes[2].table
    /\ last.value = scopes[1].table[last.arg.name]
    /\ \E n \in DOMAIN scopes[2].table :
          n \in DOMAIN scopes[1].table /\ scopes[1].table[n] # scopes[2].table[n]

(***************************************************************************)
(* Properties of the binary operation (ArithSpec, RelSpec, LogicSpec).     *)
(***************************************************************************)
\* the step is a generate_code call on a binary_op node with an operator of ops
BinaryOpCall(ops) ==
    /\ last'.call = "generate_code"
    /\ calls' # calls
    /\ last'.arg.type = "binary_op"
    /\ last'.arg.op \in ops

\* the operands of the node of the step, evaluated in order from the state
\* before the step
LeftOperand == generate_code(State, last'.arg.left)
RightOperand == generate_code(LeftOperand.s, last'.arg.right)
OperandsOk == LeftOperand.exc = NoExc /\ RightOperand.exc = NoExc

\* the step returns typ and appends one instruction for the operator, into
\* a temporary no instruction mentions yet
Succeeds(typ) ==
    LET t == TempName(RightOperand.s.temp_count) IN
    /\ last'.exc = NoExc
    /\ last'.value = Pair(t, typ)
    /\ code' = Append(RightOperand.s.code,
                      Quad(last'.arg.op, LeftOperand.res, RightOperand.res, t))
    /\ temp_count' = RightOperand.s.temp_count + 1
    /\ \A i \in 1..Len(RightOperand.s.code) :
          LET q == RightOperand.s.code[i] IN t \notin {q.arg1, q.arg2, q.result}

\* the step raises, and appends and issues nothing after the operands
Fails ==
    /\ last'.exc # NoExc
    /\ code' = RightOperand.s.code
    /\ temp_count' = RightOperand.s.temp_count

ArithmeticContract ==
    (BinaryOpCall({"+", "-", "*", "/"}) /\ OperandsOk) =>
        LET l == LeftOperand.typ
            r == RightOperand.typ IN
        IF l \in {INT, FLOAT} /\ r \in {INT, FLOAT}
        THEN Succeeds(IF l = FLOAT \/ r = FLOAT THEN FLOAT ELSE INT)
        ELSE Fails

\* C8: for + - * / and every pair of operand types, the operation succeeds
\* when both operands are INT or FLOAT, with type FLOAT when at least one
\* is FLOAT and INT otherwise, and fails when either operand has another
\* type; on success exactly one instruction (op, leftRef, rightRef, t) with
\* a fresh temporary t is appended after the instructions of the operands.
C8_Arithmetic == [][ArithmeticContract]_vars

\* INT + FLOAT has given FLOAT, INT + INT INT and FLOAT * FLOAT FLOAT ... :
\* here a product of a FLOAT sum and an INT has been analysed
C8_Witness ==
    /\ last.call = "generate_code"
    /\ last.exc = NoExc
    /\ last.arg.type = "binary_op"
    /\ last.arg.op = "*"
    /\ last.arg.left.type = "binary_op"
    /\ last.arg.right = Literal("int", "5")
    /\ last.value.typ = FLOAT
    /\ Len(code) >= 2
    /\ code[Len(code)].result = last.value.res

RelationalContract ==
    (BinaryOpCall({"<", ">", "<=", ">=", "==", "!="}) /\ OperandsOk) =>
        LET l == LeftOperand.typ
            r == RightOperand.typ IN
        IF l = r \/ (l = INT /\ r = FLOAT) \/ (l = FLOAT /\ r = INT)
        THEN Succeeds(BOOL)
        ELSE Fails

\* C9: for < > <= >= == != the operation succeeds, with type BOOL, exactly
\* when the operand types are identical or are INT and FLOAT in either
\* order, and fails for every other pair.
C9_Relational == [][RelationalContract]_vars

\* FLOAT >= INT has given BOOL
C9_Witness ==
    /\ last.call = "generate_code"
    /\ last.exc = NoExc
    /\ last.arg.type = "binary_op"
    /\ last.arg.op = ">="
    /\ last.arg.left = Literal("float", "2.5")
    /\ last.arg.right = Literal("int", "5")
    /\ last.value.typ = BOOL

LogicalContract ==
    (BinaryOpCall({"&&", "||"}) /\ OperandsOk) =>
        IF LeftOperand.typ = BOOL /\ RightOperand.typ = BOOL
        THEN Succeeds(BOOL)
        ELSE Fails

UnknownOperatorContract ==
    (/\ last'.call = "generate_code"
     /\ calls' # calls
     /\ last'.arg.type = "binary_op"
     /\ last'.arg.op \notin {"+", "-", "*", "/", "<", ">", "<=", ">=", "==", "!=",
                             "&&", "||"}
     /\ OperandsOk) => Fails

FailureContract ==
    (/\ last'.call = "generate_code"
     /\ calls' # calls
     /\ last'.arg.type = "binary_op"
     /\ OperandsOk
     /\ last'.exc # NoExc) => Fails

\* C10: && and || succeed, with type BOOL, exactly when both operands are
\* BOOL; an operator outside the arithmetic, relational and logical sets
\* fails for every pair of operand types; and a failing binary operation
\* appends no instruction for the operator and issues no temporary for it.
C10_Logical ==
    [][LogicalContract /\ UnknownOperatorContract /\ FailureContract]_vars

\* BOOL && INT has failed after the instruction of its left operand
C10_Witness ==
    /\ last.call = "generate_code"
    /\ last.exc # NoExc
    /\ last.arg.type = "binary_op"
    /\ last.arg.op = "&&"
    /\ last.arg.left = BinaryOp("<", Literal("int", "3"), Literal("int", "5"))
    /\ last.arg.right = Literal("int", "5")
    /\ temp_count = 1
    /\ code[Len(code)].op = "<"

(***************************************************************************)
(* Properties of assignments (AssignSpec).                                 *)
(***************************************************************************)
\* the step is generate_code on an assignment node without an index
ScalarAssignmentCall ==
    /\ last'.call = "generate_code"
    /\ calls' # calls
    /\ last'.arg.type = "assignment"
    /\ "index" \notin DOMAIN last'.arg

\* the expression of the node of the step, evaluated from the state before
\* the step, and the binding its target resolves to
AssignedExpr == generate_code(State, last'.arg.expr)
Target == check_symbol(scopes, current_scope, last'.arg.var_name)
Assignable ==
    /\ Target.exc = NoExc
    /\ ~Target.entry.is_const
    /\ DOMAIN Target.entry.type # {"base_type", "size"}

AssignmentContract ==
    (ScalarAssignmentCall /\ AssignedExpr.exc = NoExc /\ Assignable) =>
        LET e == AssignedExpr
            name == last'.arg.var_name
            t == TempName(e.s.temp_count) IN
        IF Target.entry.type = e.typ
        THEN /\ last'.exc = NoExc
             /\ code' = Append(e.s.code, Quad("=", e.res, NoRef, name))
             /\ temp_count' = e.s.temp_count
        ELSE IF Target.entry.type = FLOAT /\ e.typ = INT
        THEN /\ last'.exc = NoExc
             /\ code' = e.s.code \o <<Quad("inttofloat", e.res, NoRef, t),
                                       Quad("=", t, NoRef, name)>>
             /\ temp_count' = e.s.temp_count + 1
             /\ \A i \in 1..Len(e.s.code) : e.s.code[i].result # t
        ELSE /\ last'.exc.exc = "ValueError"
             /\ code' = e.s.code
             /\ temp_count' = e.s.temp_count

\* C11: a scalar assignment to a non-const, non-array variable appends
\* exactly (=, exprRef, None, name) after the instructions of the expression
\* when the types are equal; appends (inttofloat, exprRef, None, t) into a
\* fresh temporary t and then (=, t, None, name) when the variable is FLOAT
\* and the expression INT; and fails, appending no = instruction, for every
\* other pair of types, an INT variable with a FLOAT expression included.
C11_ScalarAssignment == [][AssignmentContract]_vars

\* y = 3 + 5 with y FLOAT: the sum, its conversion, and the store
C11_Witness ==
    /\ last.call = "generate_code"
    /\ last.exc = NoExc
    /\ last.arg = Assign("y", BinaryOp("+", Literal("int", "3"), Literal("int", "5")))
    /\ code = <<Quad("+", "3", "5", "t0"), Quad("inttofloat", "t0", NoRef, "t1"),
                Quad("=", "t1", NoRef, "y")>>

\* the target of the step resolves to a const binding or to an array
Unassignable ==
    /\ Target.exc = NoExc
    /\ (Target.entry.is_const \/ DOMAIN Target.entry.type = {"base_type", "size"})

\* the claim as stated: the target is checked before the expression is
\* evaluated, so the failing assignment appends nothing and issues no
\* temporary
C12_AsStated ==
    [][(ScalarAssignmentCall /\ Unassignable) =>
          /\ last'.exc # NoExc
          /\ code' = code
          /\ temp_count' = temp_count]_vars

\* C12 (amended): a scalar assignment whose target resolves to a const
\* binding or to an array fails whatever the type of the expression; the
\* expression is evaluated first, so the log and the temporary counter are
\* left as the evaluation of the expression left them, and no = and no
\* inttofloat instruction is appended.
C12_Unassignable ==
    [][(ScalarAssignmentCall /\ Unassignable) =>
          /\ last'.exc # NoExc
          /\ code' = AssignedExpr.s.code
          /\ temp_count' = AssignedExpr.s.temp_count
          /\ (AssignedExpr.exc = NoExc => last'.exc.exc = "ValueError")]_vars

\* k = 5 + 2.5 with k const: the assignment has failed on the constant, after
\* the instruction of the sum
C12_Witness ==
    /\ last.call = "generate_code"
    /\ last.exc = ValueError("Assignment error: Cannot assign to constant 'k'")
    /\ last.arg = Assign("k", BinaryOp("+", Literal("int", "5"), Literal("float", "2.5")))
    /\ code = <<Quad("+", "5", "2.5", "t0")>>
    /\ temp_count = 1

(***************************************************************************)
(* Properties of declarations (DeclSpec).                                  *)
(***************************************************************************)
DeclarationCall ==
    /\ last'.call = "generate_code"
    /\ last'.arg.type = "declaration"

\* the current scope's table with name bound to type and flag
Bound(name, type, flag) ==
    [scopes EXCEPT ![current_scope].table =
        [n \in DOMAIN @ \cup {name} |->
            IF n = name THEN [type |-> type, is_const |-> flag] ELSE @[n]]]

DeclarationFails ==
    /\ last'.exc # NoExc
    /\ code' = code
    /\ scopes' = scopes

DeclarationContract ==
    DeclarationCall =>
        LET node == last'.arg
            name == node.var_name
            base == [enum |-> node.data_type]
            flag == "is_const" \in DOMAIN node /\ node.is_const
            fresh == name \notin DOMAIN scopes[current_scope].table
            known == node.data_type \in {"int", "float", "char", "bool", "array", "function"}
        IN IF "array_size" \in DOMAIN node
           THEN IF node.array_size > 0 /\ fresh /\ known
                THEN /\ last'.exc = NoExc
                     /\ scopes' = Bound(name, [base_type |-> base, size |-> node.array_size],
                                        flag)
                     /\ code' = Append(code, Quad("alloc", name, ToString(node.array_size),
                                                  NoRef))
                ELSE DeclarationFails
           ELSE IF fresh /\ known
                THEN /\ last'.exc = NoExc
                     /\ scopes' = Bound(name, base, flag)
                     /\ code' = code
                ELSE DeclarationFails

\* C14: a declaration with an array size succeeds only if the size is
\* positive and the name is not declared in the current scope; it then binds
\* the name to ArrayType(base, size) with the const flag given and appends
\* exactly (alloc, name, size). A declaration without a size binds the
\* scalar type and appends nothing. A failing declaration appends nothing
\* and leaves the table of the current scope as it was.
C14_Declaration == [][DeclarationContract]_vars

\* after int a[2], a second declaration of a, with size 1, has failed in the
\* same scope
C14_Witness ==
    /\ last.call = "generate_code"
    /\ last.arg = ArrayDeclaration("float", "a", 1)
    /\ last.exc = ValueError("Declaration error: Variable 'a' already declared")
    /\ code = <<Quad("alloc", "a", "2", NoRef)>>
    /\ scopes[current_scope].table["a"].type = ArrayType(INT, 2)

(***************************************************************************)
(* Properties of array elements (ArraySpec).                               *)
(***************************************************************************)
\* the step is generate_code on an assignment node with an index
ElementAssignmentCall ==
    /\ last'.call = "generate_code"
    /\ calls' # calls
    /\ last'.arg.type = "assignment"
    /\ "index" \in DOMAIN last'.arg

\* the instructions the step has appended to the log
Appended == SubSeq(code', Len(code) + 1, Len(code'))
NoneAppended(op) == \A i \in 1..Len(Appended) : Appended[i].op # op

\* the binding name resolves to is an array
ResolvesToArray(name) ==
    LET c == check_symbol(scopes, current_scope, name) IN
    c.exc = NoExc /\ DOMAIN c.entry.type = {"base_type", "size"}
BaseTypeOf(name) == check_symbol(scopes, current_scope, name).entry.type.base_type

\* the index and the value of the node of the step, evaluated in this order
\* from the state before the step
StoredIndex == generate_code(State, last'.arg.index)
StoredValue == generate_code(StoredIndex.s, last'.arg.expr)

ElementAssignmentContract ==
    ElementAssignmentCall =>
        LET name == last'.arg.var_name IN
        IF /\ ResolvesToArray(name)
           /\ StoredIndex.exc = NoExc
           /\ StoredIndex.typ = INT
           /\ StoredValue.exc = NoExc
           /\ StoredValue.typ = BaseTypeOf(name)
        THEN /\ last'.exc = NoExc
             /\ code' = Append(StoredValue.s.code,
                               Quad("arraystore", name, StoredIndex.res, StoredValue.res))
        ELSE /\ last'.exc # NoExc
             /\ NoneAppended("arraystore")

\* C13: name[index] = expr succeeds exactly when name resolves to an array,
\* the index is INT and the type of the expression equals the base type of
\* the array, with no promotion of INT to FLOAT; on success the log ends
\* with (arraystore, name, indexRef, exprRef), and on failure no arraystore
\* instruction is appended.
C13_ElementAssignment == [][ElementAssignmentContract]_vars

\* a[3 + 5] = 3 + 5 on the INT array a: the two sums, then the store
C13_Witness ==
    /\ last.call = "generate_code"
    /\ last.exc = NoExc
    /\ last.arg.type = "assignment"
    /\ code = <<Quad("alloc", "a", "2", NoRef), Quad("+", "3", "5", "t0"),
                Quad("+", "3", "5", "t1"), Quad("arraystore", "a", "t0", "t1")>>

\* the step is generate_code on an array_access node
ArrayAccessCall ==
    /\ last'.call = "generate_code"
    /\ calls' # calls
    /\ last'.arg.type = "array_access"

ReadIndex == generate_code(State, last'.arg.index)

ArrayAccessContract ==
    ArrayAccessCall =>
        LET name == last'.arg.array_name
            t == TempName(ReadIndex.s.temp_count) IN
        IF ResolvesToArray(name) /\ ReadIndex.exc = NoExc /\ ReadIndex.typ = INT
        THEN /\ last'.exc = NoExc
             /\ last'.value = Pair(t, BaseTypeOf(name))
             /\ code' = Append(ReadIndex.s.code, Quad("arrayload", name, ReadIndex.res, t))
             /\ temp_count' = ReadIndex.s.temp_count + 1
             /\ \A i \in 1..Len(ReadIndex.s.code) : ReadIndex.s.code[i].result # t
        ELSE /\ last'.exc # NoExc
             /\ NoneAppended("arrayload")

\* C15: name[index] succeeds exactly when name resolves to an array and the
\* index is INT; it then appends exactly (arrayload, name, indexRef, t) with
\* a fresh temporary t after the instructions of the index and yields
\* (t, base type); otherwise it fails and appends no arrayload instruction.
C15_ArrayAccess == [][ArrayAccessContract]_vars

\* b[3 + 5] on the FLOAT array b has yielded (t1, FLOAT)
C15_Witness ==
    /\ last.call = "generate_code"
    /\ last.arg = ArrayAccess("b", BinaryOp("+", Literal("int", "3"), Literal("int", "5")))
    /\ last.value = Pair("t1", FLOAT)
    /\ code = <<Quad("alloc", "b", "2", NoRef), Quad("+", "3", "5", "t0"),
                Quad("arrayload", "b", "t0", "t1")>>

(***************************************************************************)
(* Properties of control flow (FlowSpec).                                  *)
(***************************************************************************)
FlowCall(type) ==
    /\ last'.call = "generate_code"
    /\ calls' # calls
    /\ last'.arg.type = type

\* s with the instructions quads appended to its log
With(s, quads) == [s EXCEPT !.code = @ \o quads]
\* s after two labels have been allocated
TwoLabels(s) == [s EXCEPT !.label_count = @ + 2]

IfCondition == generate_code(State, last'.arg.condition)
ElseLabel == "L" \o ToString(IfCondition.s.label_count)
IfEndLabel == "L" \o ToString(IfCondition.s.label_count + 1)
\* the then-block, analysed after the two labels and the ifnot
ThenBlock ==
    generate_code(With(TwoLabels(IfCondition.s),
                       <<Quad("ifnot", IfCondition.res, NoRef, ElseLabel)>>),
                  last'.arg.then_block)
\* the else-block, analysed after the goto and the else-label
ElseBlock ==
    generate_code(With(ThenBlock.s, <<Quad("goto", NoRef, NoRef, IfEndLabel),
                                      Quad("label", ElseLabel, NoRef, NoRef)>>),
                  last'.arg.else_block)

IfContract ==
    (FlowCall("if") /\ IfCondition.exc = NoExc) =>
        IF IfCondition.typ # BOOL
        THEN /\ last'.exc # NoExc
             /\ label_count' = IfCondition.s.label_count
             /\ code' = IfCondition.s.code
        ELSE ThenBlock.exc = NoExc =>
                IF "else_block" \in DOMAIN last'.arg
                THEN ElseBlock.exc = NoExc =>
                        /\ last'.exc = NoExc
                        /\ code' = Append(ElseBlock.s.code,
                                          Quad("label", IfEndLabel, NoRef, NoRef))
                        /\ label_count' = ElseBlock.s.label_count
                ELSE /\ last'.exc = NoExc
                     /\ code' = Append(ThenBlock.s.code,
                                       Quad("label", ElseLabel, NoRef, NoRef))
                     /\ label_count' = ThenBlock.s.label_count

\* C16: an if whose condition is not BOOL fails before a label is allocated
\* or an ifnot emitted. Otherwise two labels are allocated, else-label then
\* end-label, with or without an else-block, and the if appends, after the
\* instructions of the condition: (ifnot, condRef, None, elseLabel); the
\* then-block; with an else-block (goto, None, None, endLabel), at once
\* (label, elseLabel), the else-block and (label, endLabel); without one
\* only (label, elseLabel).
C16_If == [][IfContract]_vars

\* if (x > 0) x = 1; else x = 2; has been analysed
C16_Witness ==
    /\ last.call = "generate_code"
    /\ last.exc = NoExc
    /\ last.arg.type = "if"
    /\ label_count = 2
    /\ code = <<Quad(">", "x", "0", "t0"), Quad("ifnot", "t0", NoRef, "L0"),
                Quad("=", "1", NoRef, "x"), Quad("goto", NoRef, NoRef, "L1"),
                Quad("label", "L0", NoRef, NoRef), Quad("=", "2", NoRef, "x"),
                Quad("label", "L1", NoRef, NoRef)>>

StartLabel == "L" \o ToString(label_count)
EndLabel == "L" \o ToString(label_count + 1)
\* the condition, analysed after the two labels and the start label's
\* instruction
LoopCondition ==
    generate_code(With(TwoLabels(State), <<Quad("label", StartLabel, NoRef, NoRef)>>),
                  last'.arg.condition)
\* the body, analysed after the ifnot
LoopBody ==
    generate_code(With(LoopCondition.s,
                       <<Quad("ifnot", LoopCondition.res, NoRef, EndLabel)>>),
                  last'.arg.body)

WhileContract ==
    (FlowCall("while") /\ LoopCondition.exc = NoExc) =>
        IF LoopCondition.typ # BOOL
        THEN /\ last'.exc # NoExc
             /\ code' = LoopCondition.s.code
        ELSE LoopBody.exc = NoExc =>
                /\ last'.exc = NoExc
                /\ StartLabel # EndLabel
                /\ code' = LoopBody.s.code \o <<Quad("goto", NoRef, NoRef, StartLabel),
                                                 Quad("label", EndLabel, NoRef, NoRef)>>
                /\ label_count' = LoopBody.s.label_count

\* C17: a while appends (label, startLabel), the instructions of the
\* condition, (ifnot, condRef, None, endLabel), the body,
\* (goto, None, None, startLabel) and (label, endLabel), the two labels
\* distinct and freshly allocated, start first; when the condition is not
\* BOOL it fails and appends no ifnot, no goto and no end label.
C17_While == [][WhileContract]_vars

\* while (1 < 2) { } has been analysed
C17_Witness ==
    /\ last.call = "generate_code"
    /\ last.exc = NoExc
    /\ last.arg.type = "while"
    /\ code = <<Quad("label", "L0", NoRef, NoRef), Quad("<", "1", "2", "t0"),
                Quad("ifnot", "t0", NoRef, "L1"), Quad("goto", NoRef, NoRef, "L0"),
                Quad("label", "L1", NoRef, NoRef)>>

\* the statements of a block analysed in order from s
RECURSIVE InOrder(_, _)
InOrder(s, statements) ==
    IF statements = <<>> THEN s
    ELSE LET h == generate_code(s, Head(statements)) IN
         IF h.exc # NoExc THEN h.s ELSE InOrder(h.s, Tail(statements))

\* C18: analysing a block analyses each of its statements in order, so the
\* instructions of the statements of a then-block lie in the log after the
\* ifnot and before the trailing label: if (x > 0) { x = 1; } leaves
\* (=, 1, None, x) between them.
C18_Block ==
    [][/\ FlowCall("block") => code' = InOrder(State, last'.arg.statements).code
       /\ (/\ FlowCall("if")
           /\ last'.exc = NoExc
           /\ last'.arg.then_block = Block(<<Assign("x", Literal("int", "1"))>>))
          => \E i \in 1..Len(code') :
                /\ code'[i] = Quad("=", "1", NoRef, "x")
                /\ \E j \in 1..(i - 1) : code'[j].op = "ifnot"
                /\ \E j \in (i + 1)..Len(code') : code'[j].op = "label"]_vars

(***************************************************************************)
(* Properties of function calls (CallSpec).                                *)
(***************************************************************************)
\* the arguments of the node of the step, evaluated in order from the state
\* before the step
Arguments == generate_args(State, last'.arg.args)
Callee == functions[last'.arg.func_name]

\* the callee is registered and the arguments fit its parameters one by one
Callable ==
    /\ last'.arg.func_name \in DOMAIN functions
    /\ Len(Arguments.types) = Len(Callee.params)
    /\ \A i \in 1..Len(Callee.params) : Arguments.types[i] = Callee.params[i]

\* no call instruction among the instructions the step has appended
NoCallAppended == \A i \in (Len(code) + 1)..Len(code') : code'[i].op # "call"

FunctionCallContract ==
    (FlowCall("function_call") /\ Arguments.exc = NoExc) =>
        IF Callable
        THEN last'.exc = NoExc
        ELSE /\ last'.exc # NoExc
             /\ NoCallAppended
             /\ code' = Arguments.s.code

\* C19: a function call fails when the callee is not registered at the time
\* of the call, when the number of arguments differs from the number of
\* parameters, or when the type of an argument is not exactly the type of
\* its parameter (no promotion); a failing call appends no call instruction.
C19_FunctionCallFails == [][FunctionCallContract]_vars

\* pow(2.0, 5), an INT for the second FLOAT parameter, has failed
C19_Witness ==
    /\ last.call = "generate_code"
    /\ last.arg = FunctionCall("pow", <<Literal("float", "2.0"), Literal("int", "5")>>)
    /\ last.exc = ValueError("Argument 2 type mismatch in call to 'pow'")
    /\ "pow" \in DOMAIN functions
    /\ code = <<>>

\* C20: a successful call reports the declared return type of the callee,
\* whichever it is, and appends exactly one call instruction with the name
\* of the callee and the references of the arguments in order; a result
\* temporary is issued and recorded in the instruction if and only if the
\* return type is INT.
C20_FunctionCall ==
    [][(FlowCall("function_call") /\ last'.exc = NoExc) =>
          LET t == "t" \o ToString(Arguments.s.temp_count) IN
          /\ last'.value.typ = Callee.return_type
          /\ IF Callee.return_type = INT
             THEN /\ code' = Append(Arguments.s.code,
                                    Quad("call", last'.arg.func_name, Arguments.results, t))
                  /\ temp_count' = Arguments.s.temp_count + 1
             ELSE /\ code' = Append(Arguments.s.code,
                                    Quad("call", last'.arg.func_name, Arguments.results,
                                         NoRef))
                  /\ temp_count' = Arguments.s.temp_count]_vars

(***************************************************************************)
(* Termination of the parser (FairSpec).                                   *)
(***************************************************************************)
\* a call of eat that does not fail moves the cursor forward
EatConsumes == (Running("eat") /\ status' = "running") => pos' > pos

\* parse() is over: it has returned a Program or raised a syntax error
Terminated ==
    \/ status = "returned" /\ ret.k = "Program"
    \/ status = "raised" /\ err.kind = "SyntaxError"

\* C29: on every non-empty token list parse terminates, with a Program or
\* with a syntax error: the cursor never moves back, every eat that does
\* not fail moves it forward, and no run of the loops of parse, term and
\* expr goes on for ever.
C29_Terminates ==
    /\ [][pos' >= pos /\ EatConsumes]_vars
    /\ [](status # "running" => Terminated)
    /\ <>Terminated

\* an unclosed parenthesis, ( 2 and the end of input, has raised an error
\* after two tokens were consumed
C29_Witness ==
    /\ status = "raised"
    /\ err.kind = "SyntaxError"
    /\ Len(tokens) = 3
    /\ tokens[1].type = "LPAREN"
    /\ tokens[2].type = "INTEGER"
    /\ tokens[3].type = "EOF"
    /\ pos = 2

AssignmentCall == NodeCall /\ last'.arg.type = "assignment"
\* the target of the assignment resolves, before the step, to a const binding
ConstTarget == Target.exc = NoExc /\ Target.entry.is_const

\* C25: an assignment, scalar or to an array element, whose target resolves
\* to a binding declared const fails and appends no `=` and no `arraystore`
\* instruction.
C25_ConstNeverAssigned ==
    [][(AssignmentCall /\ ConstTarget) =>
          /\ last'.exc # NoExc
          /\ NoneAppended("=")
          /\ NoneAppended("arraystore")]_vars

\* the part that holds: a scalar assignment to a const binding fails
ConstScalarFails ==
    [][(AssignmentCall /\ ConstTarget /\ ~HasIndex(last'.arg)) =>
          /\ last'.exc # NoExc
          /\ NoneAppended("=")
          /\ NoneAppended("arraystore")]_vars

\* a block that declares a name the enclosing scope already binds and then
\* assigns to it
ShadowingBlock(node) ==
    /\ node.type = "block"
    /\ Len(node.statements) = 2
    /\ node.statements[1].type = "declaration"
    /\ node.statements[2].type = "assignment"
    /\ node.statements[2].var_name = node.statements[1].var_name
    /\ check_symbol(scopes, current_scope, node.statements[1].var_name).exc = NoExc
Shadowed == last'.arg.statements[1].var_name

\* C23: analysing a block enters a new scope whose parent is the current one
\* and leaves it afterwards: inside, a declaration of a name of the enclosing
\* scope succeeds and shadows it (int x outside, then { float x; x = 2.5; }
\* stores into the float x), and after the block the name resolves as before
\* and the current scope is the one that was current before.
C23_BlockScope ==
    [][(NodeCall /\ ShadowingBlock(last'.arg)) =>
          /\ last'.exc = NoExc
          /\ Appended = <<Quad("=", last'.arg.statements[2].expr.value.repr,
                               NoRef, Shadowed)>>
          /\ current_scope' = current_scope
          /\ check_symbol(scopes', current_scope', Shadowed)
                = check_symbol(scopes, current_scope, Shadowed)]_vars

ScalarTypes == {INT, FLOAT, CHAR, BOOL}
ScalarTypeNames == {"int", "float", "char", "bool"}
WellTyped(t) ==
    IF IsArrayType(t) THEN t.base_type \in ScalarTypes /\ t.size > 0
    ELSE t \in ScalarTypes
EntriesWellTyped ==
    \A i \in DOMAIN scopes : \A name \in DOMAIN scopes[i].table :
        WellTyped(scopes[i].table[name].type)
OtherTypesRejected ==
    (DeclarationCall /\ last'.arg.data_type \notin ScalarTypeNames) =>
        /\ last'.exc # NoExc
        /\ scopes' = scopes

\* C26: the type of every entry of every scope is INT, FLOAT, CHAR or BOOL,
\* or an ArrayType with one of these as base and a positive size; a
\* declaration with any other type name, 'array' and 'function' included,
\* fails and declares nothing.
C26_ClosedTypes ==
    /\ []EntriesWellTyped
    /\ [][OtherTypesRejected]_vars

\* the part that holds: every array entry has a positive size, and a type
\* name outside the enumeration is rejected
SizesPositive ==
    \A i \in DOMAIN scopes : \A name \in DOMAIN scopes[i].table :
        IsArrayType(scopes[i].table[name].type) => scopes[i].table[name].type.size > 0

(***************************************************************************)
(* read_text_file.  A line is the sequence of its characters, the newline  *)
(* that ends it included, as iterating over the open file yields it.       *)
(***************************************************************************)
MaxLines == 3       \* lines of a file

NL == "\n"
Whitespace == {" ", NL}
Letters == {"a", "b", "c"}
SingleLine == <<"/", "/">>
Opening == <<"/", "*">>
Closing == <<"*", "/">>

StartsWith(line, p) == Len(line) >= Len(p) /\ SubSeq(line, 1, Len(p)) = p
EndsWith(line, p) ==
    Len(line) >= Len(p) /\ SubSeq(line, Len(line) - Len(p) + 1, Len(line)) = p
\* re.search of a literal
Contains(line, p) ==
    \E i \in 1 .. Len(line) - Len(p) + 1 : SubSeq(line, i, i + Len(p) - 1) = p
HasNewline(line) == \E i \in DOMAIN line : line[i] = NL

\* str.lstrip / str.strip
RECURSIVE LStrip(_)
LStrip(line) ==
    IF line # <<>> /\ Head(line) \in Whitespace THEN LStrip(Tail(line)) ELSE line
RECURSIVE RStrip(_)
RStrip(line) ==
    IF line # <<>> /\ line[Len(line)] \in Whitespace
    THEN RStrip(SubSeq(line, 1, Len(line) - 1)) ELSE line
Strip(line) == RStrip(LStrip(line))

\* the word being read, added to the words read when it is not empty
Flush(words, word) == IF word = "" THEN words ELSE Append(words, word)
\* str.split(): the maximal runs of characters that are not whitespace
RECURSIVE SplitFrom(_, _, _)
SplitFrom(line, words, word) ==
    IF line = <<>> THEN Flush(words, word)
    ELSE IF Head(line) \in Whitespace THEN SplitFrom(Tail(line), Flush(words, word), "")
    ELSE SplitFrom(Tail(line), words, word \o Head(line))
Split(line) == SplitFrom(line, <<>>, "")

\* main.py: re.fullmatch(r"[\s\S]*?\*/", line)
MainCloses(line) == EndsWith(line, Closing)
\* main.py: re.fullmatch(r"\/\/.*", line); the dot matches no newline
MainSingleLine(line) == StartsWith(line, SingleLine) /\ ~HasNewline(line)
\* main.py: re.fullmatch(r"\/\*[\s\S]*", line)
MainOpens(line) == StartsWith(line, Opening)

\* the loop of read_text_file of main.py over the lines left
RECURSIVE main_loop(_, _, _)
main_loop(lines, isOnAComment, read) ==
    IF lines = <<>> THEN read
    ELSE LET line == Head(lines) IN
         IF isOnAComment
         THEN main_loop(Tail(lines), ~MainCloses(line), read)
         ELSE IF line = <<>> THEN main_loop(Tail(lines), FALSE, read)
         ELSE IF MainSingleLine(line) THEN main_loop(Tail(lines), FALSE, read)
         ELSE IF MainOpens(line) THEN main_loop(Tail(lines), TRUE, read)
         ELSE main_loop(Tail(lines), FALSE, Append(read, Split(Strip(line))))
main_read_text_file(lines) == main_loop(lines, FALSE, <<>>)

\* lexical_analyzer.py: the matches of the token pattern in a line of letters,
\* '/', '*' and blanks: each run of letters is an identifier, '/' and '*'
\* are tokens of their own
RECURSIVE FindTokens(_, _, _)
FindTokens(line, found, word) ==
    IF line = <<>> THEN Flush(found, word)
    ELSE IF Head(line) \in Letters THEN FindTokens(Tail(line), found, word \o Head(line))
    ELSE IF Head(line) \in Whitespace THEN FindTokens(Tail(line), Flush(found, word), "")
    ELSE FindTokens(Tail(line), Append(Flush(found, word), Head(line)), "")
Tokenize(line) == FindTokens(Strip(line), <<>>, "")

\* lexical_analyzer.py: re.match(r"^\s*\/\/.*", line) and re.match(r"^\s*\/\*", line)
LexSingleLine(line) == StartsWith(LStrip(line), SingleLine)
LexOpens(line) == StartsWith(LStrip(line), Opening)

\* the loop of read_text_file of lexical_analyzer.py over the lines left
RECURSIVE lexical_loop(_, _, _)
lexical_loop(lines, isOnAComment, read) ==
    IF lines = <<>> THEN read
    ELSE LET line == Head(lines) IN
         IF isOnAComment
         THEN lexical_loop(Tail(lines), ~Contains(line, Closing), read)
         ELSE IF Strip(line) = <<>> THEN lexical_loop(Tail(lines), FALSE, read)
         ELSE IF LexSingleLine(line) THEN lexical_loop(Tail(lines), FALSE, read)
         ELSE IF LexOpens(line)
         THEN lexical_loop(Tail(lines), ~Contains(line, Closing), read)
         ELSE IF Tokenize(line) = <<>> THEN lexical_loop(Tail(lines), FALSE, read)
         ELSE lexical_loop(Tail(lines), FALSE, Append(read, Tokenize(line)))
lexical_read_text_file(lines) == lexical_loop(lines, FALSE, <<>>)

\* the texts of the lines: words, an empty line, a // comment, the opening
\* and the closing line of a block comment, a block comment on one line
LineTexts ==
    {<<"a">>, <<"a", " ", "b">>, <<>>,
     <<"/", "/", "c">>,
     <<"/", "*", " ", "c">>, <<"c", " ", "*", "/">>,
     <<"/", "*", " ", "c", " ", "*", "/">>}
\* files of up to MaxLines lines; the last line may lack its newline
Files ==
    {[i \in 1 .. n |-> IF i < n \/ nl THEN Append(texts[i], NL) ELSE texts[i]] :
        <<n, texts, nl>> \in
            {x \in UNION {{<<m, t, b>> : t \in [1 .. m -> LineTexts], b \in BOOLEAN} :
                          m \in 0 .. MaxLines} :
                x[3] \/ (x[1] > 0 /\ x[2][x[1]] # <<>>)}}

ReadInit ==
    /\ PIdle /\ SInit
    /\ file \in Files
    /\ textLines = <<>>
    /\ reader = "idle"

\* main.read_text_file(file_path)
ReadMain ==
    /\ reader = "idle"
    /\ textLines' = main_read_text_file(file)
    /\ reader' = "main"
    /\ UNCHANGED <<file, pvars, svars>>

\* lexical_analyzer.read_text_file(file_path)
ReadLexical ==
    /\ reader = "idle"
    /\ textLines' = lexical_read_text_file(file)
    /\ reader' = "lexical_analyzer"
    /\ UNCHANGED <<file, pvars, svars>>

ReadNext ==
    \/ ReadMain
    \/ ReadLexical

ReadSpec == ReadInit /\ [][ReadNext]_vars

\* the line without the newline that ends it
Text(line) == IF line # <<>> /\ line[Len(line)] = NL THEN SubSeq(line, 1, Len(line) - 1) ELSE line
\* the lines that are neither empty, nor // comments, nor part of a block
\* comment, in file order
RECURSIVE Kept(_, _)
Kept(lines, inComment) ==
    IF lines = <<>> THEN <<>>
    ELSE LET line == Head(lines) IN
         IF inComment THEN Kept(Tail(lines), ~Contains(line, Closing))
         ELSE IF Text(line) = <<>> THEN Kept(Tail(lines), FALSE)
         ELSE IF StartsWith(line, SingleLine) THEN Kept(Tail(lines), FALSE)
         ELSE IF StartsWith(line, Opening)
         THEN Kept(Tail(lines), ~Contains(line, Closing))
         ELSE <<line>> \o Kept(Tail(lines), FALSE)
KeptLines == Kept(file, FALSE)

\* C24: read_text_file returns, in file order, one token list for each line
\* that is neither empty, nor a // comment, nor part of a block comment (from
\* the line that opens it through the line that closes it, or to the end of
\* the file when nothing closes it), whether or not the line ends with a
\* newline; the tokens of a line are those of the reader that was called.
C24_ReadTextFile ==
    /\ reader = "main" =>
          textLines = [i \in DOMAIN KeptLines |-> Split(Strip(KeptLines[i]))]
    /\ reader = "lexical_analyzer" =>
          textLines = [i \in DOMAIN KeptLines |-> Tokenize(KeptLines[i])]

\* the part that holds: the reader of lexical_analyzer.py filters as stated
LexicalReaderFilters ==
    reader = "lexical_analyzer" =>
        textLines = [i \in DOMAIN KeptLines |-> Tokenize(KeptLines[i])]

\* the reader of main.py does so on files without comments and empty lines
MainReadsPlainFiles ==
    (reader = "main" /\ \A i \in DOMAIN file : Text(file[i]) \in {<<"a">>, <<"a", " ", "b">>}) =>
        textLines = [i \in DOMAIN file |-> Split(Strip(file[i]))]

====
